---- MODULE Spec2Model ----
(***************************************************************************)
(* Order lifecycle reconciliation of bot.py: the status reconciler         *)
(* (adjust_service_qty_on_status_change), its referral/bonus sub-rule, the *)
(* balance ledger (update_user_balance under db_lock), the order           *)
(* dispatcher, the supplier status loop, the /D and /F commands and the    *)
(* wrappers safe_request and safe_execute around store and supplier calls. *)
(*                                                                         *)
(* Money is held as an exact integer number of 1/UnitsPerUSD dollars; the  *)
(* unit is chosen so that every division the code performs on the modelled *)
(* inputs is exact.  Python float rounding is not modelled.                *)
(***************************************************************************)
EXTENDS Integers, Sequences, FiniteSets, TLC

VARIABLES
    orders,     \* WebsiteOrders rows: [OrderIds -> row]
    sold,       \* services.total_sold_qty: [ServiceIds -> Int]
    users,      \* users rows: [UserIds -> row]
    call,       \* the last reconciler call: its inputs and the state before it
    acct,       \* per order, what the reconciler calls made for it have done
    events,     \* number of handler runs so far
    lock,       \* db_lock: the thread holding it, or "free"
    thr,        \* per ledger thread: position in update_user_balance and locals
    ledger,     \* per user: accounting of the update_user_balance calls
    disp,       \* per order, what the dispatcher has done with it
    ex,         \* one run of an executor around one operation
    scan,       \* one pass of the supplier status loop over its rows
    pay,        \* transactions, VerifyPayment and affiliate rows and their loops
    loop        \* per polling loop: where its thread is

vars ==
    <<orders, sold, users, call, acct, events, lock, thr, ledger, disp, ex, scan,
      pay, loop>>

----------------------------------------------------------------------------
\* Bounds of the model

MaxEvents == 4

MaxCalls == 2

MaxRetries == 3

MaxPasses == 2

\* Units and program constants

UnitsPerUSD == 5 * 100

USD(n) == n * UnitsPerUSD

BonusThresholdUSD == 10

ReferralPercent == 4

BonusPercent == 1

Max(a, b) == IF a >= b THEN a ELSE b

----------------------------------------------------------------------------
\* The record store's contents

OrderIds == {"o1"}

UserIds == {"u", "w"}

ServiceIds == {"s1", "s2"}

NoService == "none"

NoOwner == "none"

\* a ref_owner_id no users row carries
GoneOwner == "gone"

NoEmail == ""

EmailOf == [u \in UserIds |-> IF u = "u" THEN "u@x" ELSE "w@x"]

ServiceName == [s \in ServiceIds |-> IF s = "s1" THEN "IG Likes" ELSE "IG Likes HQ"]

\* service_name ILIKE %needle%, on the names the model uses
Contains(hay, needle) ==
    \/ hay = needle
    \/ needle = "Likes" /\ hay \in {"IG Likes", "IG Likes HQ"}

OrderServiceNames == {"IG Likes", "Likes", "TikTok"}

OrderEmails == {"u@x", "nobody@x", NoEmail}

Quantities == {0, 5}

Remains == {0, 2, 6}

Prices == {0, USD(10), USD(20)}

\* Status strings a row or a supplier response may carry
StatusStrings ==
    {"Pending", "Processing", "In progress", "Completed", "completed",
     "Partial", "Canceled", "Cancelled", "Refunded"}

\* str.lower() on the status strings
Lower(s) ==
    CASE s = "Pending" -> "pending"
      [] s = "Processing" -> "processing"
      [] s = "In progress" -> "in progress"
      [] s = "Completed" -> "completed"
      [] s = "Partial" -> "partial"
      [] s = "Canceled" -> "canceled"
      [] s = "Cancelled" -> "cancelled"
      [] s = "Refunded" -> "refunded"
      [] OTHER -> s

NoRefund == <<>>

----------------------------------------------------------------------------
\* update_user_balance, run without interference and with a store that answers

UserByEmail(email) == {u \in UserIds : EmailOf[u] = email}

UpdateUserBalance(us, email, amount) ==
    IF UserByEmail(email) = {}
    THEN [users |-> us, ok |-> FALSE]
    ELSE LET u == CHOOSE x \in UserByEmail(email) : TRUE
             new == us[u].balance_usd + amount
         IN  [users |-> [us EXCEPT ![u].balance_usd = new], ok |-> TRUE]

----------------------------------------------------------------------------
\* handle_referral_and_bonus

ReferralDelta(amount, add) ==
    LET delta == (amount * ReferralPercent) \div 100
    IN  IF add THEN delta ELSE 0 - delta

BonusDelta(amount, add) ==
    LET bonus == (amount * BonusPercent) \div 100
    IN  IF add THEN bonus ELSE 0 - bonus

BonusEligible_AtLeast(total_spend) == total_spend >= USD(BonusThresholdUSD)

BonusEligible(total_spend) == total_spend > USD(BonusThresholdUSD)

\* select withdrawable_balance where id = ref_owner: .data[0] raises IndexError
\* when no users row has that id
OwnerFound(ref_owner) == ref_owner \in UserIds

\* The users after the step, and whether it left through an exception
HandleReferralAndBonus(us, email, amount, add) ==
    IF UserByEmail(email) = {}
    THEN [users |-> us, raised |-> FALSE]
    ELSE LET u == CHOOSE x \in UserByEmail(email) : TRUE
             ref_owner == us[u].ref_owner_id
             us1 == IF ref_owner # NoOwner
                    THEN [us EXCEPT ![ref_owner].withdrawable_balance =
                                        @ + ReferralDelta(amount, add)]
                    ELSE us
         IN  IF ref_owner # NoOwner /\ ~OwnerFound(ref_owner)
             THEN [users |-> us, raised |-> TRUE]
             ELSE IF BonusEligible(us[u].total_spend)
             THEN [users |-> UpdateUserBalance(us1, email, BonusDelta(amount, add)).users,
                   raised |-> FALSE]
             ELSE [users |-> us1, raised |-> FALSE]

----------------------------------------------------------------------------
\* find_service_for_order: the rows the lookup may return

FindService(order) ==
    LET svc_name == order.service
        exact == {s \in ServiceIds : ServiceName[s] = svc_name}
        ilike == {s \in ServiceIds : Contains(ServiceName[s], svc_name)}
    IN  IF svc_name = "" THEN {NoService}
        ELSE IF exact # {} THEN exact
        ELSE IF ilike # {} THEN ilike
        ELSE {NoService}

----------------------------------------------------------------------------
\* adjust_service_qty_on_status_change

CanceledWords == {"partial", "canceled", "cancelled"}

IsCompletion(old, new) == new = "completed" /\ old # "completed"

IsReversal(old, new) == old = "completed" /\ new \in CanceledWords

IsRefund_AnyOld(old, new) == new \in CanceledWords

IsRefund(old, new) ==
    new \in CanceledWords /\ old \notin ({"completed"} \cup CanceledWords)

ReversalRefund_Full(sell_price, qty, remain) == sell_price

\* (remain / qty) * sell_price if remain else sell_price
ReversalRefund(sell_price, qty, remain) ==
    IF remain # 0 THEN (remain * sell_price) \div qty ELSE sell_price

PartialRefund_Delivered(sell_price, qty, remain) ==
    (sell_price * (qty - remain)) \div qty

\* (sell_price / qty) * remain
PartialRefund(sell_price, qty, remain) == (sell_price * remain) \div qty

DoneQty(qty, remain) == Max(0, qty - remain)

CompletionSold_Overwrite(cur_qty, qty) == qty

CompletionSold(cur_qty, qty) == cur_qty + qty

ReversalSold(cur_qty, qty) == Max(0, cur_qty - qty)

ReversalSpend_Kept(total_spend, refund_amount) == total_spend

ReversalSpend(total_spend, refund_amount) == Max(0, total_spend - refund_amount)

ServiceMissing_Never(svc) == FALSE

\* if not svc: return
ServiceMissing(svc) == svc = NoService

Caught_Undone(written, initial) == initial

\* except Exception: what was written before the exception stays written
Caught(written, initial) == written

NoEffect ==
    [branch |-> "none", sold |-> FALSE, credited |-> FALSE, spend |-> 0,
     floored |-> FALSE]

\* S = [orders, sold, users]; svc is the row find_service_for_order returned.
\* The result adds eff: which branch ran and what it did.
Reconcile(order, old_status, new_status, svc, S) ==
    LET old == Lower(old_status)
        new == Lower(new_status)
        qty == order.quantity
        remain == order.remain
        sell_price == order.sell_charge
        email == order.email
        found == UserByEmail(email)
        u == CHOOSE x \in found : TRUE
        same == [orders |-> S.orders, sold |-> S.sold, users |-> S.users,
                 eff |-> NoEffect]
    IN
    IF ServiceMissing(svc) THEN same
    ELSE IF IsCompletion(old, new) THEN
        LET sold1 == [S.sold EXCEPT ![svc] = CompletionSold(@, qty)]
            spends == email # NoEmail /\ sell_price # 0 /\ found # {}
            us1 == IF spends
                   THEN [S.users EXCEPT ![u].total_spend = @ + sell_price]
                   ELSE S.users
            step == HandleReferralAndBonus(us1, email, sell_price, TRUE)
            W == IF step.raised
                 THEN Caught([orders |-> S.orders, sold |-> sold1, users |-> us1],
                             [orders |-> S.orders, sold |-> S.sold, users |-> S.users])
                 ELSE [orders |-> S.orders, sold |-> sold1, users |-> step.users]
        IN  [orders |-> W.orders, sold |-> W.sold, users |-> W.users,
             eff |-> [branch |-> "completed", sold |-> sold1 # S.sold, credited |-> FALSE,
                      spend |-> IF spends THEN sell_price ELSE 0,
                      floored |-> FALSE]]
    ELSE IF IsReversal(old, new) THEN
        LET sold1 == [S.sold EXCEPT ![svc] = ReversalSold(@, qty)]
        IN  IF email # NoEmail /\ qty # 0 /\ sell_price # 0
            THEN
              LET refund_amount == ReversalRefund(sell_price, qty, remain)
                  us1 == IF found # {}
                         THEN [S.users EXCEPT ![u].total_spend =
                                   ReversalSpend(@, refund_amount)]
                         ELSE S.users
                  bal == UpdateUserBalance(us1, email, refund_amount)
                  ords1 == [S.orders EXCEPT
                               ![order.id].refund_amount = <<refund_amount>>,
                               ![order.id].status = "Refunded"]
                  step == HandleReferralAndBonus(bal.users, email, refund_amount, FALSE)
                  W == IF step.raised
                       THEN Caught([orders |-> ords1, sold |-> sold1, users |-> bal.users],
                                   [orders |-> S.orders, sold |-> S.sold, users |-> S.users])
                       ELSE [orders |-> ords1, sold |-> sold1, users |-> step.users]
              IN  [orders |-> W.orders, sold |-> W.sold, users |-> W.users,
                   eff |-> [branch |-> "reversal", sold |-> sold1 # S.sold,
                            credited |-> bal.ok /\ refund_amount > 0,
                            spend |-> IF found # {}
                                      THEN us1[u].total_spend - S.users[u].total_spend
                                      ELSE 0,
                            floored |-> found # {} /\
                                        S.users[u].total_spend - refund_amount < 0]]
            ELSE [orders |-> S.orders, sold |-> sold1, users |-> S.users,
                  eff |-> [NoEffect EXCEPT !.branch = "reversal", !.sold = (sold1 # S.sold)]]
    ELSE IF IsRefund(old, new) THEN
        LET done_qty == DoneQty(qty, remain)
            sold1 == [S.sold EXCEPT ![svc] = @ + done_qty]
        IN  IF qty > 0 /\ sell_price > 0
            THEN
              LET refund_amount == PartialRefund(sell_price, qty, remain)
                  spend_amount == sell_price - refund_amount
                  us1 == IF found # {}
                         THEN [S.users EXCEPT ![u].total_spend = @ + spend_amount]
                         ELSE S.users
                  bal == UpdateUserBalance(us1, email, refund_amount)
                  ords1 == [S.orders EXCEPT
                               ![order.id].refund_amount = <<refund_amount>>,
                               ![order.id].status = "Refunded"]
              IN  [orders |-> ords1, sold |-> sold1, users |-> bal.users,
                   eff |-> [branch |-> "refund", sold |-> sold1 # S.sold,
                            credited |-> bal.ok /\ refund_amount > 0,
                            spend |-> IF found # {} THEN spend_amount ELSE 0,
                            floored |-> FALSE]]
            ELSE [orders |-> S.orders, sold |-> sold1, users |-> S.users,
                  eff |-> [NoEffect EXCEPT !.branch = "refund", !.sold = (sold1 # S.sold)]]
    ELSE same

----------------------------------------------------------------------------
\* Values of the bookkeeping variables before anything has run

Store == [orders |-> orders, sold |-> sold, users |-> users]

NoCall ==
    [done |-> FALSE, order |-> "o1", row |-> <<>>, old |-> "", new |-> "",
     svc |-> NoService, pre |-> <<>>]

NoAcct ==
    [o \in OrderIds |->
        [refunds |-> 0, soldAdj |-> 0, spend |-> 0, path |-> <<>>,
         floored |-> FALSE, seen |-> {}, trans |-> {}]]

ThreadIds == {"t1", "t2"}

IdleThread ==
    [pc |-> "idle", email |-> NoEmail, amount |-> 0, bal |-> 0, calls |-> 0,
     ret |-> "none", wrote |-> FALSE]

NoLedger == [u \in UserIds |-> [initial |-> 0, returnedTrue |-> 0, persisted |-> 0]]

LedgerIdle ==
    /\ lock = "free"
    /\ thr = [t \in ThreadIds |-> IdleThread]
    /\ ledger = NoLedger

\* Per order: place-order requests sent (and those sent although the row had a
\* supplier reference), supplier HTTP calls, rows skipped, the notifications
\* handed to safe_send, the reconciler calls made, the update written and the
\* stored row when the dispatcher was done with it
NoDisp ==
    [o \in OrderIds |->
        [submits |-> 0, accepts |-> 0, refSubmits |-> 0, http |-> 0, skips |-> 0,
         last |-> "none", returned |-> 0,
         notes |-> {}, recs |-> <<>>, wrote |-> {},
         after |-> [status |-> "none", supplier_order_id |-> "none"]]]

ExecIdle ==
    [pc |-> "idle", site |-> "none", wrapper |-> "none", retries |-> 0,
     outcomes |-> <<>>, attempt |-> 0, delays |-> 0, waits |-> <<>>,
     retried |-> {}, result |-> "none", error |-> "none"]

\* The last poll of a row by the status loop: the status stored before its
\* update, the status the supplier reported, the (old, new) of the reconciler
\* calls it made and the status stored when it was done
NoPoll ==
    [row |-> "none", stored |-> "none", reported |-> "none", calls |-> <<>>,
     after |-> "none"]

ScanIdle ==
    [pc |-> "idle", rows |-> <<>>, done |-> {}, dropped |-> {}, passes |-> 0,
     undelivered |-> 0, last |-> NoPoll]

\* No transactions, VerifyPayment or affiliate rows; both loops between scans
PayIdle ==
    [tx |-> <<>>, vp |-> <<>>, aff |-> <<>>,
     processed_ids |-> {}, sent_ids |-> {},
     txpc |-> "idle", txq |-> {}, txpasses |-> 0,
     affpc |-> "idle", affq |-> {}, affpasses |-> 0,
     runs |-> <<>>, credits |-> <<>>, marks |-> <<>>]

\* The threads __main__ starts
LoopIds == {"orders", "status", "transactions", "affiliate", "support"}

LoopIdle == [l \in LoopIds |-> [pc |-> "scan", err |-> "none", recovered |-> FALSE]]

HelpersIdle ==
    ex = ExecIdle /\ scan = ScanIdle /\ pay = PayIdle /\ loop = LoopIdle

\* The rows a storefront may have created and the users and services around them
OrderRow(o, st, qty, rem, price, email, svcname, supplier, soid) ==
    [id |-> o, status |-> st, quantity |-> qty, remain |-> rem,
     sell_charge |-> price, email |-> email, service |-> svcname,
     supplier_name |-> supplier, supplier_order_id |-> soid,
     refund_amount |-> NoRefund]

UserRows(ts, owner) ==
    [u \in UserIds |->
        [balance_usd |-> 0,
         total_spend |-> IF u = "u" THEN ts ELSE 0,
         ref_owner_id |-> IF u = "u" THEN owner ELSE NoOwner,
         withdrawable_balance |-> IF u = "w" THEN USD(1) ELSE 0]]

----------------------------------------------------------------------------
\* The reconciler applied once to drawn inputs

InitialSold == {3, 8}

InitialSpend == {0, USD(5), USD(30)}

InitRec ==
    /\ \E qty \in Quantities, rem \in Remains, price \in Prices,
          email \in OrderEmails, svcname \in OrderServiceNames :
          orders = [o \in OrderIds |->
                       OrderRow(o, "Processing", qty, rem, price, email, svcname,
                                "smmgen", "9001")]
    /\ \E n \in InitialSold : sold = [s \in ServiceIds |-> n]
    /\ \E ts \in InitialSpend, owner \in {NoOwner, "w", GoneOwner} :
          users = UserRows(ts, owner)
    /\ call = NoCall
    /\ acct = NoAcct
    /\ events = 0
    /\ LedgerIdle
    /\ disp = NoDisp
    /\ HelpersIdle

RecCall(o, old_status, new_status) ==
    /\ ~call.done
    /\ \E svc \in FindService(orders[o]) :
         LET R == Reconcile(orders[o], old_status, new_status, svc, Store)
         IN  /\ orders' = R.orders
             /\ sold' = R.sold
             /\ users' = R.users
             /\ call' = [done |-> TRUE, order |-> o, row |-> orders[o],
                         old |-> old_status, new |-> new_status, svc |-> svc,
                         pre |-> Store]
    /\ UNCHANGED <<acct, events, lock, thr, ledger, disp, ex, scan, pay, loop>>

NextRec == \E o \in OrderIds, old_status, new_status \in StatusStrings :
               RecCall(o, old_status, new_status)

SpecRec == InitRec /\ [][NextRec]_vars

----------------------------------------------------------------------------
\* The running system: dispatcher, supplier status loop, /D and /F

SupplierNames == {"smmgen", "k2boost"}

SupplierStatuses ==
    {"Pending", "In progress", "Completed", "Partial", "Canceled"}

FailedDispatchId == "123456"

AcceptedId == "9001"

SecondId == "9002"

IssuedIds == {AcceptedId, SecondId}

StartSpend == {0, USD(30)}

StartPrices == {0, USD(10)}

\* supplier_order_id of a row the storefront has just created, or of a row set
\* back to Pending by hand after it was dispatched
StartRefs == {"None", "0", AcceptedId}

Init ==
    /\ \/ \E qty \in Quantities, price \in StartPrices, email \in OrderEmails,
             svcname \in OrderServiceNames, supplier \in SupplierNames :
             \E rem \in {0, qty} :
                orders = [o \in OrderIds |->
                             OrderRow(o, "Pending", qty, rem, price, email,
                                      svcname, supplier, "None")]
       \/ \E supplier \in SupplierNames, soid \in StartRefs :
             orders = [o \in OrderIds |->
                          OrderRow(o, "Pending", 5, 0, USD(10), "u@x",
                                   "IG Likes", supplier, soid)]
    /\ sold = [s \in ServiceIds |-> 0]
    /\ \E ts \in StartSpend, owner \in {NoOwner, "w"} : users = UserRows(ts, owner)
    /\ call = NoCall
    /\ acct = NoAcct
    /\ events = 0
    /\ LedgerIdle
    /\ disp = NoDisp
    /\ HelpersIdle

\* The changes of the stored status of order o made by a handler that writes
\* `first` and whose reconciler call leaves `final`
Writes(o, first, final) ==
    {w \in {<<orders[o].status, first>>, <<first, final>>} : w[1] # w[2]}

\* What a reconciler call for order o reporting new_status did; `final` is the
\* row's status when the handler is done
Account(o, new_status, eff, final) ==
    [acct EXCEPT ![o] =
        [refunds |-> @.refunds + (IF eff.credited THEN 1 ELSE 0),
         soldAdj |-> @.soldAdj + (IF eff.sold THEN 1 ELSE 0),
         spend |-> @.spend + eff.spend,
         path |-> IF eff.branch # "none" THEN Append(@.path, eff.branch) ELSE @.path,
         floored |-> @.floored \/ eff.floored,
         seen |-> @.seen \cup {Lower(new_status)},
         trans |-> @.trans \cup Writes(o, new_status, final)]]

\* The reconciler called by a handler that has already written `ords`
Reconciled(o, order, old_status, new_status, ords) ==
    \E svc \in FindService(order) :
        LET R == Reconcile(order, old_status, new_status, svc,
                           [orders |-> ords, sold |-> sold, users |-> users])
        IN  /\ orders' = R.orders
            /\ sold' = R.sold
            /\ users' = R.users
            /\ acct' = Account(o, new_status, R.eff, R.orders[o].status)

\* supplier_order_id not in [None, "", 0, "0"]
HasSupplierRef_Never(soid) == FALSE

HasSupplierRef_Always(soid) == TRUE

HasSupplierRef(soid) == soid \notin {"None", "", "0"}

\* str(result["order_id"]) for the order numbers the supplier issues
Str(n) == IF n = 9001 THEN AcceptedId ELSE SecondId

IssuedNumbers == {9001, 9002}

StoredRef_Sentinel(order_id) == FailedDispatchId

StoredRef(order_id) == Str(order_id)

\* the old status the dispatcher hands to the reconciler: order.get("status")
DispatchOld_New(order) == "Canceled"

DispatchOld(order) == order.status

ManualStatus_Pending == "Pending"

ManualStatus == "Processing"

\* The dispatcher is done with row o: what it did, wrote and sent
Dispatched(o, how, requests, returned, note, recs, wrote, ords) ==
    disp' = [disp EXCEPT ![o] =
                [submits |-> @.submits + requests,
                 accepts |-> @.accepts + (IF how = "accepted" THEN 1 ELSE 0),
                 refSubmits |-> @.refSubmits +
                     (IF orders[o].supplier_order_id \notin {"None", "", "0"}
                      THEN requests ELSE 0),
                 http |-> @.http + requests,
                 skips |-> @.skips + (IF how = "skipped" THEN 1 ELSE 0),
                 last |-> how,
                 returned |-> returned,
                 notes |-> @.notes \cup note,
                 recs |-> @.recs \o recs,
                 wrote |-> wrote,
                 after |-> [status |-> ords[o].status,
                            supplier_order_id |-> ords[o].supplier_order_id]]]

Scanned(o) ==
    /\ events < MaxEvents
    /\ orders[o].status = "Pending"

Dispatchable(o) ==
    /\ Scanned(o)
    /\ Lower(orders[o].supplier_name) = "smmgen"
    /\ ~HasSupplierRef(orders[o].supplier_order_id)

\* check_new_orders_loop on an smmgen row that already has a supplier reference
DispatchSkip(o) ==
    /\ Scanned(o)
    /\ Lower(orders[o].supplier_name) = "smmgen"
    /\ HasSupplierRef(orders[o].supplier_order_id)
    /\ Dispatched(o, "skipped", 0, disp[o].returned, {}, <<>>, {}, orders)
    /\ events' = events + 1
    /\ UNCHANGED <<orders, sold, users, call, acct, lock, thr, ledger, ex, scan, pay, loop>>

\* check_new_orders_loop on an smmgen order the supplier accepts as order_id
DispatchAccepted(o, order_id) ==
    /\ Dispatchable(o)
    /\ orders' = [orders EXCEPT ![o].status = "Processing",
                                ![o].supplier_order_id = StoredRef(order_id)]
    /\ Dispatched(o, "accepted", 1, order_id, {"sent"}, <<>>,
                  {<<"status", "Processing">>,
                   <<"supplier_order_id", StoredRef(order_id)>>}, orders')
    /\ acct' = [acct EXCEPT ![o].trans = @ \cup Writes(o, "Processing", "Processing")]
    /\ events' = events + 1
    /\ UNCHANGED <<sold, users, call, lock, thr, ledger, ex, scan, pay, loop>>

\* check_new_orders_loop on an smmgen order whose request fails or whose answer
\* has no order id: send_to_smmgen does the same in both cases but for the
\* wording of the failure notice
DispatchFailed(o) ==
    /\ Dispatchable(o)
    /\ Reconciled(o, orders[o], DispatchOld(orders[o]), "Canceled",
                  [orders EXCEPT ![o].status = "Canceled",
                                 ![o].supplier_order_id = FailedDispatchId])
    /\ Dispatched(o, "failed", 1, disp[o].returned, {"failure"},
                  <<<<DispatchOld(orders[o]), "Canceled">>>>,
                  {<<"status", "Canceled">>,
                   <<"supplier_order_id", FailedDispatchId>>}, orders')
    /\ events' = events + 1
    /\ UNCHANGED <<call, lock, thr, ledger, ex, scan, pay, loop>>

\* check_new_orders_loop on a k2boost order
DispatchManual(o) ==
    /\ Scanned(o)
    /\ Lower(orders[o].supplier_name) = "k2boost"
    /\ orders' = [orders EXCEPT ![o].status = ManualStatus]
    /\ Dispatched(o, "manual", 0, disp[o].returned, {"operator"}, <<>>,
                  {<<"status", ManualStatus>>}, orders')
    /\ acct' = [acct EXCEPT ![o].trans = @ \cup Writes(o, ManualStatus, ManualStatus)]
    /\ events' = events + 1
    /\ UNCHANGED <<sold, users, call, lock, thr, ledger, ex, scan, pay, loop>>

Changed_Always(old_status, new_status) == TRUE

\* new_status and old_status.lower() != new_status.lower(), for the statuses a
\* supplier answer carries
Changed(old_status, new_status) == Lower(old_status) # Lower(new_status)

\* The supplier reports a status only for an order id it has issued; for any
\* other id its answer is an error object without status or remains
SupplierKnows(oid) == oid \in IssuedIds

\* smmgen_status_loop on one row, the supplier answering (new_status, remains)
StatusPoll(o, new_status, remains) ==
    /\ events < MaxEvents
    /\ orders[o].supplier_name = "smmgen"
    /\ orders[o].supplier_order_id \notin {"None", ""}
    /\ orders[o].status # "Completed"
    /\ SupplierKnows(orders[o].supplier_order_id)
    /\ LET oid == orders[o].supplier_order_id
           same == {p \in OrderIds : orders[p].supplier_order_id = oid}
           updated == [p \in OrderIds |->
                          IF p \in same
                          THEN [orders[p] EXCEPT !.remain = remains,
                                                 !.status = new_status]
                          ELSE orders[p]]
       IN  \E p \in same :
             LET old_order == orders[p]
                 old_status == old_order.status
             IN  IF Changed(old_status, new_status)
                 THEN Reconciled(p, old_order, old_status, new_status, updated)
                 ELSE /\ orders' = updated
                      /\ acct' = Account(p, new_status, NoEffect, new_status)
                      /\ UNCHANGED <<sold, users>>
    /\ events' = events + 1
    /\ UNCHANGED <<call, lock, thr, ledger, disp, ex, scan, pay, loop>>

\* smmgen_status_loop on one row whose id the supplier does not know: the
\* query is made, the answer carries nothing to update
StatusPollUnknown(o) ==
    /\ events < MaxEvents
    /\ orders[o].supplier_name = "smmgen"
    /\ orders[o].supplier_order_id \notin {"None", ""}
    /\ orders[o].status # "Completed"
    /\ ~SupplierKnows(orders[o].supplier_order_id)
    /\ events' = events + 1
    /\ UNCHANGED <<orders, sold, users, call, acct, lock, thr, ledger, disp, ex, scan, pay, loop>>

\* /D <OrderID>
AdminMarkCompleted(o) ==
    /\ events < MaxEvents
    /\ Reconciled(o, orders[o], orders[o].status, "Completed",
                  [orders EXCEPT ![o].status = "Completed"])
    /\ events' = events + 1
    /\ UNCHANGED <<call, lock, thr, ledger, disp, ex, scan, pay, loop>>

\* /F <OrderID>
AdminMarkFailed(o) ==
    /\ events < MaxEvents
    /\ Reconciled(o, orders[o], orders[o].status, "Canceled",
                  [orders EXCEPT ![o].status = "Canceled"])
    /\ events' = events + 1
    /\ UNCHANGED <<call, lock, thr, ledger, disp, ex, scan, pay, loop>>

ProfitReset_Halved(cur_qty) == cur_qty \div 2

\* update({"total_sold_qty": 0})
ProfitReset(cur_qty) == 0

\* /calculate: calculate_profit reports on the services with total_sold_qty > 0
\* and then resets the total_sold_qty of each of them
CalculateProfit ==
    /\ events < MaxEvents
    /\ \E s \in ServiceIds : sold[s] > 0
    /\ sold' = [s \in ServiceIds |->
                   IF sold[s] > 0 THEN ProfitReset(sold[s]) ELSE sold[s]]
    /\ events' = events + 1
    /\ UNCHANGED <<orders, users, call, acct, lock, thr, ledger, disp, ex, scan, pay, loop>>

Next ==
    \/ \E o \in OrderIds :
          \/ DispatchSkip(o)
          \/ \E order_id \in IssuedNumbers : DispatchAccepted(o, order_id)
          \/ DispatchFailed(o)
          \/ DispatchManual(o)
          \/ \E st \in SupplierStatuses, rem \in Remains : StatusPoll(o, st, rem)
          \/ StatusPollUnknown(o)
          \/ AdminMarkCompleted(o)
          \/ AdminMarkFailed(o)
    \/ CalculateProfit

Spec == Init /\ [][Next]_vars

----------------------------------------------------------------------------
\* check_new_orders_loop with a store whose writes may fail: safe_execute prints
\* the error of the update and the loop goes on as if it had been made

\* the supplier accepts the order and the update to Processing is lost
DispatchAcceptedUnsaved(o, order_id) ==
    /\ Dispatchable(o)
    /\ Dispatched(o, "accepted", 1, order_id, {"sent"}, <<>>, {}, orders)
    /\ events' = events + 1
    /\ UNCHANGED <<orders, sold, users, call, acct, lock, thr, ledger, ex, scan, pay, loop>>

\* the request fails and the update to Canceled is lost; the reconciler runs
\* all the same and its own writes are made
DispatchFailedUnsaved(o) ==
    /\ Dispatchable(o)
    /\ Reconciled(o, orders[o], DispatchOld(orders[o]), "Canceled", orders)
    /\ Dispatched(o, "failed", 1, disp[o].returned, {"failure"},
                  <<<<DispatchOld(orders[o]), "Canceled">>>>, {}, orders')
    /\ events' = events + 1
    /\ UNCHANGED <<call, lock, thr, ledger, ex, scan, pay, loop>>

\* the operator is told of a k2boost order and the update to Processing is lost
DispatchManualUnsaved(o) ==
    /\ Scanned(o)
    /\ Lower(orders[o].supplier_name) = "k2boost"
    /\ Dispatched(o, "manual", 0, disp[o].returned, {"operator"}, <<>>, {}, orders)
    /\ events' = events + 1
    /\ UNCHANGED <<orders, sold, users, call, acct, lock, thr, ledger, ex, scan, pay, loop>>

NextDispatch ==
    \E o \in OrderIds :
        \/ DispatchSkip(o)
        \/ \E order_id \in IssuedNumbers :
              DispatchAccepted(o, order_id) \/ DispatchAcceptedUnsaved(o, order_id)
        \/ DispatchFailed(o) \/ DispatchFailedUnsaved(o)
        \/ DispatchManual(o) \/ DispatchManualUnsaved(o)

SpecDispatch == Init /\ [][NextDispatch]_vars

----------------------------------------------------------------------------
\* check_new_orders_loop alone, scheduled fairly, over a store that makes every
\* write; the Pending row may name any supplier and carry any reference

OtherSupplier == "other"

InitOrders ==
    /\ \E qty \in Quantities, email \in OrderEmails, svcname \in OrderServiceNames,
          supplier \in SupplierNames \cup {OtherSupplier}, soid \in StartRefs :
          orders = [o \in OrderIds |->
                       OrderRow(o, "Pending", qty, 0, USD(10), email, svcname,
                                supplier, soid)]
    /\ sold = [s \in ServiceIds |-> 0]
    /\ users = UserRows(0, NoOwner)
    /\ call = NoCall
    /\ acct = NoAcct
    /\ events = 0
    /\ LedgerIdle
    /\ disp = NoDisp
    /\ HelpersIdle

\* the select of the Pending rows that opens an iteration
OrdersSelect ==
    /\ loop["orders"].pc = "scan"
    /\ loop' = [loop EXCEPT !["orders"].pc = "rows"]
    /\ UNCHANGED <<orders, sold, users, call, acct, events, lock, thr, ledger, disp, ex, scan, pay>>

\* the loop body on a row it writes
OrdersStep(o) ==
    /\ loop["orders"].pc = "rows"
    /\ \/ \E order_id \in IssuedNumbers : DispatchAccepted(o, order_id)
       \/ DispatchFailed(o)
       \/ DispatchManual(o)

\* the loop body leaves the row as it is: `continue` on an smmgen row that has
\* a supplier reference, and no branch for a supplier other than smmgen and
\* k2boost
PassedOver(o) ==
    \/ /\ Lower(orders[o].supplier_name) = "smmgen"
       /\ HasSupplierRef(orders[o].supplier_order_id)
    \/ Lower(orders[o].supplier_name) \notin {"smmgen", "k2boost"}

\* the for loop is over, every row still Pending having been passed over; the
\* next iteration follows without a sleep
OrdersPassEnd ==
    /\ loop["orders"].pc = "rows"
    /\ \A o \in OrderIds : orders[o].status = "Pending" => PassedOver(o)
    /\ loop' = [loop EXCEPT !["orders"].pc = "scan"]
    /\ UNCHANGED <<orders, sold, users, call, acct, events, lock, thr, ledger, disp, ex, scan, pay>>

NextOrders ==
    \/ OrdersSelect
    \/ \E o \in OrderIds : OrdersStep(o)
    \/ OrdersPassEnd

\* the loop is a thread of its own
SpecOrders == InitOrders /\ [][NextOrders]_vars /\ WF_vars(NextOrders)

----------------------------------------------------------------------------
\* update_user_balance step by step, called from concurrent threads, with a
\* store whose calls may fail (safe_execute turns a failure into data = None)

LedgerEmails == {"u@x", "nobody@x"}

LedgerAmounts == {100, 0 - 40}

InitLedger ==
    /\ orders = [o \in OrderIds |->
                    OrderRow(o, "Processing", 5, 0, USD(10), "u@x", "IG Likes",
                             "smmgen", AcceptedId)]
    /\ sold = [s \in ServiceIds |-> 0]
    /\ \E b \in {0, USD(1)} :
          /\ users = [UserRows(0, NoOwner) EXCEPT !["u"].balance_usd = b]
          /\ ledger = [NoLedger EXCEPT !["u"].initial = b]
    /\ call = NoCall
    /\ acct = NoAcct
    /\ events = 0
    /\ lock = "free"
    /\ thr = [t \in ThreadIds |-> IdleThread]
    /\ disp = NoDisp
    /\ HelpersIdle

\* a thread enters update_user_balance(email, amount)
LedgerCall(t, email, amount) ==
    /\ thr[t].pc = "idle"
    /\ thr[t].calls < MaxCalls
    /\ thr' = [thr EXCEPT ![t] = [pc |-> "acquire", email |-> email,
                                  amount |-> amount, bal |-> 0,
                                  calls |-> @.calls + 1, ret |-> "none",
                                  wrote |-> FALSE]]
    /\ UNCHANGED <<orders, sold, users, call, acct, events, lock, ledger, disp, ex, scan, pay, loop>>

\* with db_lock:
LockFree(t) == lock = "free"

LedgerAcquire(t) ==
    /\ thr[t].pc = "acquire"
    /\ LockFree(t)
    /\ lock' = t
    /\ thr' = [thr EXCEPT ![t].pc = "read"]
    /\ UNCHANGED <<orders, sold, users, call, acct, events, ledger, disp, ex, scan, pay, loop>>

\* the select answers with the user's row
LedgerRead(t) ==
    /\ thr[t].pc = "read"
    /\ UserByEmail(thr[t].email) # {}
    /\ LET u == CHOOSE x \in UserByEmail(thr[t].email) : TRUE
       IN  thr' = [thr EXCEPT ![t].pc = "write", ![t].bal = users[u].balance_usd]
    /\ UNCHANGED <<orders, sold, users, call, acct, events, lock, ledger, disp, ex, scan, pay, loop>>

Release_Kept(holder, t) == holder

\* the end of `with db_lock:`, on a return as on an exception
Release(holder, t) == IF holder = t THEN "free" ELSE holder

\* Leaving the with block and returning `ret`
Leave(t, ret, wrote) ==
    /\ lock' = Release(lock, t)
    /\ thr' = [thr EXCEPT ![t].pc = "idle", ![t].ret = ret, ![t].wrote = wrote]

\* the select answers with no row: return False
LedgerReadNoUser(t) ==
    /\ thr[t].pc = "read"
    /\ UserByEmail(thr[t].email) = {}
    /\ Leave(t, "False", FALSE)
    /\ UNCHANGED <<orders, sold, users, call, acct, events, ledger, disp, ex, scan, pay, loop>>

\* the select raises; safe_execute returns data = None: return False
LedgerReadFails(t) ==
    /\ thr[t].pc = "read"
    /\ Leave(t, "False", FALSE)
    /\ UNCHANGED <<orders, sold, users, call, acct, events, ledger, disp, ex, scan, pay, loop>>

\* What update_user_balance returns after the update call, given whether the
\* store persisted the new balance
WriteResult(persisted) == "True"

\* the update is persisted; return True
LedgerWrite(t) ==
    /\ thr[t].pc = "write"
    /\ LET u == CHOOSE x \in UserByEmail(thr[t].email) : TRUE
           new == thr[t].bal + thr[t].amount
       IN  /\ users' = [users EXCEPT ![u].balance_usd = new]
           /\ ledger' = [ledger EXCEPT
                            ![u].persisted = @ + thr[t].amount,
                            ![u].returnedTrue =
                                IF WriteResult(TRUE) = "True"
                                THEN @ + thr[t].amount ELSE @]
    /\ Leave(t, WriteResult(TRUE), TRUE)
    /\ UNCHANGED <<orders, sold, call, acct, events, disp, ex, scan, pay, loop>>

\* the update raises; safe_execute swallows it; return True all the same
LedgerWriteFails(t) ==
    /\ thr[t].pc = "write"
    /\ LET u == CHOOSE x \in UserByEmail(thr[t].email) : TRUE
       IN  ledger' = [ledger EXCEPT
                         ![u].returnedTrue =
                             IF WriteResult(FALSE) = "True"
                             THEN @ + thr[t].amount ELSE @]
    /\ Leave(t, WriteResult(FALSE), FALSE)
    /\ UNCHANGED <<orders, sold, users, call, acct, events, disp, ex, scan, pay, loop>>

NextLedger ==
    \E t \in ThreadIds :
        \/ \E email \in LedgerEmails, amount \in LedgerAmounts :
              LedgerCall(t, email, amount)
        \/ LedgerAcquire(t)
        \/ LedgerRead(t)
        \/ LedgerReadNoUser(t)
        \/ LedgerReadFails(t)
        \/ LedgerWrite(t)
        \/ LedgerWriteFails(t)

SpecLedger == InitLedger /\ [][NextLedger]_vars

\* what a thread inside update_user_balance does next
LedgerRun(t) ==
    \/ LedgerAcquire(t)
    \/ LedgerRead(t)
    \/ LedgerReadNoUser(t)
    \/ LedgerReadFails(t)
    \/ LedgerWrite(t)
    \/ LedgerWriteFails(t)

\* every thread is scheduled and every store call returns or raises
SpecLedgerFair ==
    InitLedger /\ [][NextLedger]_vars /\ \A t \in ThreadIds : WF_vars(LedgerRun(t))

----------------------------------------------------------------------------
\* adjust_service_qty_on_status_change run by two threads at once (the status
\* loop, the orders loop on a failed dispatch, the handlers of /D and /F), each
\* for an order of its own; both orders are of service s1 and of user u, whose
\* referral owner is w.  Each counter the reconciler adjusts is read by one
\* store call and written by a later one, outside db_lock.

\* the counters in the order the rule reads and writes them
RaceFields ==
    [completed |-> <<"total_sold_qty", "total_spend", "withdrawable_balance">>,
     refund |-> <<"total_sold_qty", "total_spend">>]

RaceStart ==
    [total_sold_qty |-> 3, total_spend |-> USD(5), withdrawable_balance |-> USD(1)]

\* the stored value of a counter
RaceStored(f) ==
    CASE f = "total_sold_qty" -> sold["s1"]
      [] f = "total_spend" -> users["u"].total_spend
      [] f = "withdrawable_balance" -> users["w"].withdrawable_balance

\* what the rule writes to counter f after reading cur
RaceNew(rule, order, f, cur) ==
    LET qty == order.quantity
        remain == order.remain
        sell_price == order.sell_charge
    IN  CASE f = "total_sold_qty" ->
               IF rule = "completed" THEN CompletionSold(cur, qty)
               ELSE cur + DoneQty(qty, remain)
          [] f = "total_spend" ->
               IF rule = "completed" THEN cur + sell_price
               ELSE cur + (sell_price - PartialRefund(sell_price, qty, remain))
          [] f = "withdrawable_balance" -> cur + ReferralDelta(sell_price, TRUE)

InitRace ==
    /\ orders = [o \in OrderIds |->
                    OrderRow(o, "Processing", 5, 0, USD(10), "u@x", "IG Likes",
                             "smmgen", AcceptedId)]
    /\ sold = [s \in ServiceIds |-> RaceStart.total_sold_qty]
    /\ users = [UserRows(RaceStart.total_spend, "w") EXCEPT
                   !["w"].withdrawable_balance = RaceStart.withdrawable_balance]
    /\ call = NoCall
    /\ acct = NoAcct
    /\ events = 0
    /\ lock = "free"
    /\ ledger = NoLedger
    /\ disp = NoDisp
    /\ HelpersIdle
    /\ \E rules \in [ThreadIds -> DOMAIN RaceFields],
          rems \in [ThreadIds -> {0, 2}], prices \in [ThreadIds -> {USD(10), USD(20)}] :
          thr = [t \in ThreadIds |->
                    [pc |-> "read", rule |-> rules[t],
                     order |-> [quantity |-> 5, remain |-> rems[t],
                                sell_charge |-> prices[t]],
                     todo |-> RaceFields[rules[t]], cur |-> 0]]

\* the select that precedes the update of the next counter
RaceRead(t) ==
    /\ thr[t].pc = "read"
    /\ thr' = [thr EXCEPT ![t].pc = "write",
                          ![t].cur = RaceStored(Head(thr[t].todo))]
    /\ UNCHANGED <<orders, sold, users, call, acct, events, lock, ledger, disp, ex, scan, pay, loop>>

\* the update of that counter from the value read
RaceWrite(t) ==
    /\ thr[t].pc = "write"
    /\ LET f == Head(thr[t].todo)
           new == RaceNew(thr[t].rule, thr[t].order, f, thr[t].cur)
           rest == Tail(thr[t].todo)
       IN  /\ sold' = IF f = "total_sold_qty" THEN [sold EXCEPT !["s1"] = new]
                      ELSE sold
           /\ users' = CASE f = "total_spend" ->
                              [users EXCEPT !["u"].total_spend = new]
                          [] f = "withdrawable_balance" ->
                              [users EXCEPT !["w"].withdrawable_balance = new]
                          [] OTHER -> users
           /\ thr' = [thr EXCEPT ![t].todo = rest, ![t].cur = 0,
                                 ![t].pc = IF rest = <<>> THEN "done" ELSE "read"]
    /\ UNCHANGED <<orders, call, acct, events, lock, ledger, disp, ex, scan, pay, loop>>

NextRace == \E t \in ThreadIds : RaceRead(t) \/ RaceWrite(t)

SpecRace == InitRace /\ [][NextRace]_vars

----------------------------------------------------------------------------
\* One operation run at one call site, under the wrapper that call site uses.
\* The operation's outcome on each successive invocation is drawn beforehand.

\* the words is_transient_exception looks for in str(e).lower()
Keywords ==
    {"connection reset", "broken pipe", "connection aborted", "timed out",
     "timeout", "remote protocol error"}

\* The exceptions an operation may raise: whether the class derives from
\* requests.exceptions.RequestException, and which of the words its message has
ErrorInfo ==
    [Timeout |-> [requests |-> TRUE, says |-> {"timed out"}],
     ConnectionError |-> [requests |-> TRUE, says |-> {"connection aborted"}],
     HTTPError |-> [requests |-> TRUE, says |-> {}],
     BrokenPipeError |-> [requests |-> FALSE, says |-> {"broken pipe"}],
     ReadTimeout |-> [requests |-> FALSE, says |-> {"timed out"}],
     APIError |-> [requests |-> FALSE, says |-> {}],
     KeyError |-> [requests |-> FALSE, says |-> {}]]

is_transient_exception(e) ==
    \/ ErrorInfo[e].requests
    \/ ErrorInfo[e].says \cap Keywords # {}

\* The call sites and what each is wrapped in: safe_request, the safe_execute in
\* effect when the program runs, or nothing ("bare": the call itself inside
\* the caller's try)
WrapperOf ==
    [place_order |-> "safe_request", order_write |-> "safe_execute",
     status_query |-> "bare", reconciler_write |-> "bare"]

Sites == DOMAIN WrapperOf

HttpSites == {"place_order", "status_query"}

\* requests.request followed by raise_for_status; a supabase query's execute()
SiteErrors(site) ==
    IF site \in HttpSites
    THEN {"Timeout", "ConnectionError", "HTTPError", "BrokenPipeError"}
    ELSE {"ReadTimeout", "BrokenPipeError", "APIError", "KeyError"}

InitExec ==
    /\ orders = [o \in OrderIds |->
                    OrderRow(o, "Pending", 5, 0, USD(10), "u@x", "IG Likes",
                             "smmgen", "None")]
    /\ sold = [s \in ServiceIds |-> 0]
    /\ users = UserRows(0, NoOwner)
    /\ call = NoCall
    /\ acct = NoAcct
    /\ events = 0
    /\ LedgerIdle
    /\ disp = NoDisp
    /\ scan = ScanIdle
    /\ pay = PayIdle
    /\ loop = LoopIdle
    /\ \E site \in Sites, n \in 0..MaxRetries :
         \E outs \in [1..MaxRetries -> SiteErrors(site) \cup {"ok"}] :
            ex = [ExecIdle EXCEPT !.pc = "call", !.site = site,
                                  !.wrapper = WrapperOf[site], !.retries = n,
                                  !.outcomes = outs]

ExecOnly == UNCHANGED <<orders, sold, users, call, acct, events, lock, thr,
                        ledger, disp, scan, pay, loop>>

\* safe_request's sleep after the failure of `attempt`, in milliseconds
RequestDelay(attempt) == (1 + attempt * 2) * 1000

\* safe_request: one pass of `for attempt in range(retries)`
SafeRequestAttempt ==
    /\ ex.pc = "call" /\ ex.wrapper = "safe_request"
    /\ ex.attempt < ex.retries
    /\ LET out == ex.outcomes[ex.attempt + 1]
           made == [ex EXCEPT !.attempt = @ + 1]
       IN  ex' = IF out = "ok"
                 THEN [made EXCEPT !.pc = "done", !.result = "returned"]
                 ELSE IF is_transient_exception(out) /\ ex.attempt + 1 < ex.retries
                 THEN [made EXCEPT !.delays = @ + 1,
                                   !.waits = Append(@, RequestDelay(ex.attempt)),
                                   !.retried = @ \cup {out}]
                 ELSE [made EXCEPT !.pc = "done", !.result = "raised",
                                   !.error = out]
    /\ ExecOnly

\* safe_request with retries = 0: the loop body never runs and `raise last_exc`
\* raises with last_exc = None, which is a TypeError
SafeRequestNoAttempt ==
    /\ ex.pc = "call" /\ ex.wrapper = "safe_request"
    /\ ex.retries = 0
    /\ ex' = [ex EXCEPT !.pc = "done", !.result = "raised", !.error = "TypeError"]
    /\ ExecOnly

\* safe_execute(func): func() once; any exception is printed and an object with
\* data = None is returned
SafeExecuteCall ==
    /\ ex.pc = "call" /\ ex.wrapper = "safe_execute"
    /\ LET out == ex.outcomes[1]
           made == [ex EXCEPT !.attempt = 1, !.pc = "done"]
       IN  ex' = IF out = "ok"
                 THEN [made EXCEPT !.result = "returned"]
                 ELSE [made EXCEPT !.result = "returned_empty", !.error = out]
    /\ ExecOnly

\* an unwrapped call: once; an exception goes to the caller's except clause
BareCall ==
    /\ ex.pc = "call" /\ ex.wrapper = "bare"
    /\ LET out == ex.outcomes[1]
           made == [ex EXCEPT !.attempt = 1, !.pc = "done"]
       IN  ex' = IF out = "ok"
                 THEN [made EXCEPT !.result = "returned"]
                 ELSE [made EXCEPT !.result = "raised", !.error = out]
    /\ ExecOnly

NextExec ==
    \/ SafeRequestAttempt
    \/ SafeRequestNoAttempt
    \/ SafeExecuteCall
    \/ BareCall

SpecExec == InitExec /\ [][NextExec]_vars

----------------------------------------------------------------------------
\* smmgen_status_loop pass by pass over two dispatched orders; delivering a
\* notification may fail

ScanOrderIds == {"o1", "o2"}

ScanRef == [o \in ScanOrderIds |-> IF o = "o1" THEN AcceptedId ELSE SecondId]

\* the service of o1 has a services row, that of o2 has none
ScanService == [o \in ScanOrderIds |-> IF o = "o1" THEN "IG Likes" ELSE "TikTok"]

InitScan ==
    /\ orders = [o \in ScanOrderIds |->
                    OrderRow(o, "Processing", 5, 0, USD(10), "u@x", ScanService[o],
                             "smmgen", ScanRef[o])]
    /\ sold = [s \in ServiceIds |-> 0]
    /\ users = UserRows(0, NoOwner)
    /\ call = NoCall
    /\ acct = [o \in ScanOrderIds |-> NoAcct["o1"]]
    /\ events = 0
    /\ LedgerIdle
    /\ disp = NoDisp
    /\ ex = ExecIdle
    /\ scan = ScanIdle
    /\ pay = PayIdle
    /\ loop = LoopIdle

\* the rows the pass selects, in an order the store chooses
Selected ==
    {o \in ScanOrderIds :
        /\ orders[o].supplier_name = "smmgen"
        /\ orders[o].supplier_order_id # "None"
        /\ orders[o].status # "Completed"}

Orderings(S) ==
    {f \in [1..Cardinality(S) -> S] : \A x \in S : \E i \in DOMAIN f : f[i] = x}

ScanOnly == UNCHANGED <<call, events, lock, thr, ledger, disp, ex, pay, loop>>

ScanStart ==
    /\ scan.pc = "idle"
    /\ scan.passes < MaxPasses
    /\ \E rows \in Orderings(Selected) :
          scan' = [scan EXCEPT !.pc = "rows", !.rows = rows, !.done = {},
                               !.passes = @ + 1]
    /\ UNCHANGED <<orders, sold, users, acct>>
    /\ ScanOnly

\* One row of the pass: the supplier answers (new_status, remains); sendOk says
\* whether the reconciler's safe_send calls get through, msgOk whether the
\* loop's own bot.send_message does.  An exception of bot.send_message leaves
\* the for loop for the except clause of the pass.
ScanRow(new_status, remains, sendOk, msgOk) ==
    /\ scan.pc = "rows"
    /\ scan.rows # <<>>
    /\ LET r == Head(scan.rows)
           oid == orders[r].supplier_order_id
           same == {p \in ScanOrderIds : orders[p].supplier_order_id = oid}
           updated == [p \in ScanOrderIds |->
                          IF p \in same
                          THEN [orders[p] EXCEPT !.remain = remains,
                                                 !.status = new_status]
                          ELSE orders[p]]
           p == CHOOSE q \in same : TRUE
           old_order == orders[p]
           old_status == old_order.status
           changed == Changed(old_status, new_status)
           lost == IF changed /\ (~sendOk \/ ~msgOk) THEN 1 ELSE 0
           poll == [row |-> p, stored |-> old_status, reported |-> new_status,
                    calls |-> IF changed THEN <<<<old_status, new_status>>>>
                              ELSE <<>>,
                    after |-> orders'[p].status]
       IN  /\ SupplierKnows(oid)
           /\ IF changed
              THEN Reconciled(p, old_order, old_status, new_status, updated)
              ELSE /\ orders' = updated
                   /\ acct' = Account(p, new_status, NoEffect, new_status)
                   /\ UNCHANGED <<sold, users>>
           /\ scan' = IF changed /\ ~msgOk
                      THEN [scan EXCEPT
                               !.pc = "idle", !.rows = <<>>,
                               !.done = @ \cup {r},
                               !.dropped = @ \cup {scan.rows[i] :
                                                     i \in 2..Len(scan.rows)},
                               !.undelivered = Max(@, lost), !.last = poll]
                      ELSE [scan EXCEPT
                               !.rows = Tail(@), !.done = @ \cup {r},
                               !.undelivered = Max(@, lost), !.last = poll]
    /\ ScanOnly

\* the for loop is over: time.sleep(60)
ScanEnd ==
    /\ scan.pc = "rows"
    /\ scan.rows = <<>>
    /\ scan' = [scan EXCEPT !.pc = "idle", !.last = NoPoll]
    /\ UNCHANGED <<orders, sold, users, acct>>
    /\ ScanOnly

NextScan ==
    \/ ScanStart
    \/ \E st \in SupplierStatuses, rem \in {0, 2}, sendOk, msgOk \in BOOLEAN :
          ScanRow(st, rem, sendOk, msgOk)
    \/ ScanEnd

SpecScan == InitScan /\ [][NextScan]_vars

----------------------------------------------------------------------------
\* Top-ups: poll_transactions, poll_affiliate and the operator commands /Yes,
\* /No and /Use (the handlers registered first are the ones that run)

TxIds == {"t1", "t2"}

VpIds == {"v1", "v2"}

AffIds == {"a1"}

PayRefs == {"R1", "R2"}

PayMethods == {"kpay", "wave"}

AffMethods == {"topup", "TopUp", "kpay"}

\* method.lower()
LowerMethod(m) == IF m = "TopUp" THEN "topup" ELSE m

TxRecord(ref, method, amount, email) ==
    [status |-> "Pending", transaction_id |-> ref, method |-> method,
     amount |-> amount, email |-> email]

VpRecord(ref, method, amount) ==
    [status |-> "unused", transaction_id |-> ref, method |-> method,
     amount_usd |-> amount]

AffRecord(method, amount, email) ==
    [status |-> "Pending", method |-> method, amount |-> amount, email |-> email]

InitPay ==
    /\ orders = [o \in OrderIds |->
                    OrderRow(o, "Pending", 0, 0, 0, NoEmail, "IG Likes", "smmgen",
                             "None")]
    /\ sold = [s \in ServiceIds |-> 0]
    /\ users = UserRows(0, NoOwner)
    /\ call = NoCall
    /\ acct = NoAcct
    /\ events = 0
    /\ LedgerIdle
    /\ disp = NoDisp
    /\ ex = ExecIdle
    /\ scan = ScanIdle
    /\ loop = LoopIdle
    /\ \E amount1 \in {USD(10), USD(20)}, email1 \in {"u@x", "nobody@x"},
          ref2 \in PayRefs, method2 \in PayMethods, amount2 \in {USD(10), USD(20)},
          affmethod \in AffMethods :
          pay = [PayIdle EXCEPT
                    !.tx = [t \in TxIds |->
                               IF t = "t1"
                               THEN TxRecord("R1", "kpay", amount1, email1)
                               ELSE TxRecord(ref2, "kpay", USD(10), "u@x")],
                    !.vp = [v \in VpIds |->
                               IF v = "v1"
                               THEN VpRecord("R1", "kpay", USD(10))
                               ELSE VpRecord("R1", method2, amount2)],
                    !.aff = [a \in AffIds |-> AffRecord(affmethod, USD(5), "u@x")],
                    !.runs = [r \in TxIds \cup AffIds |-> 0],
                    !.credits = [t \in TxIds |-> 0],
                    !.marks = [v \in VpIds |-> <<>>]]

PayOnly == UNCHANGED <<orders, sold, call, acct, lock, thr, ledger, disp, ex, scan, loop>>

ClaimStatus_Pending == "Pending"

\* the status written before a row is acted on
ClaimStatus == "Processing"

\* abs(float(v["amount_usd"]) - amount) < 0.0001, on amounts that are whole
\* numbers of 1/UnitsPerUSD dollars
AmountMatches(a, b) == a = b

\* the VerifyPayment rows poll_transactions may pick as the match of transaction t
Matches(t) ==
    {v \in VpIds :
        /\ pay.vp[v].transaction_id = pay.tx[t].transaction_id
        /\ pay.vp[v].method = pay.tx[t].method
        /\ pay.vp[v].status = "unused"
        /\ AmountMatches(pay.vp[v].amount_usd, pay.tx[t].amount)}

\* update_verify_status(txid, status): every row with that transaction_id
UpdateVerifyStatus(vp, txid, status) ==
    [v \in VpIds |->
        IF vp[v].transaction_id = txid THEN [vp[v] EXCEPT !.status = status]
        ELSE vp[v]]

\* How each row that went from unused to used got there
Marked(vp1, by, t) ==
    [v \in VpIds |->
        IF pay.vp[v].status = "unused" /\ vp1[v].status = "used"
        THEN Append(pay.marks[v], [by |-> by, tx |-> t])
        ELSE pay.marks[v]]

\* poll_transactions: select * from transactions where status = Pending
TxScanStart ==
    /\ pay.txpc = "idle"
    /\ pay.txpasses < MaxPasses
    /\ pay' = [pay EXCEPT !.txpc = "rows",
                          !.txq = {t \in TxIds : pay.tx[t].status = "Pending"},
                          !.txpasses = @ + 1]
    /\ UNCHANGED <<users, events>>
    /\ PayOnly

\* poll_transactions on one row of its scan; msgOk says whether
\* bot.send_message gets through (its exception ends the scan)
TxStep(t, msgOk) ==
    /\ pay.txpc = "rows"
    /\ t \in pay.txq
    /\ IF t \in pay.processed_ids
       THEN /\ pay' = [pay EXCEPT !.txq = @ \ {t}]
            /\ UNCHANGED users
       ELSE LET tx == pay.tx[t]
                rest == IF msgOk THEN pay.txq \ {t} ELSE {}
                pc == IF msgOk THEN "rows" ELSE "idle"
            IN  IF Matches(t) # {}
                THEN LET vp1 == UpdateVerifyStatus(pay.vp, tx.transaction_id, "used")
                         bal == UpdateUserBalance(users, tx.email, tx.amount)
                     IN  /\ users' = bal.users
                         /\ pay' = [pay EXCEPT
                                      !.tx[t].status = "Accepted",
                                      !.vp = vp1,
                                      !.marks = Marked(vp1, "loop", t),
                                      !.processed_ids = @ \cup {t},
                                      !.runs[t] = @ + 1,
                                      !.credits[t] = @ + (IF bal.ok THEN 1 ELSE 0),
                                      !.txq = rest, !.txpc = pc]
                ELSE /\ pay' = [pay EXCEPT
                                  !.tx[t].status = ClaimStatus,
                                  !.processed_ids = @ \cup {t},
                                  !.runs[t] = @ + 1,
                                  !.txq = rest, !.txpc = pc]
                     /\ UNCHANGED users
    /\ UNCHANGED events
    /\ PayOnly

\* poll_transactions on a row whose claim write raises: the scan ends there
TxClaimFails(t) ==
    /\ pay.txpc = "rows"
    /\ t \in pay.txq
    /\ t \notin pay.processed_ids
    /\ pay' = [pay EXCEPT !.txq = {}, !.txpc = "idle"]
    /\ UNCHANGED <<users, events>>
    /\ PayOnly

\* the for loop is over: time.sleep(POLL_INTERVAL)
TxScanEnd ==
    /\ pay.txpc = "rows"
    /\ pay.txq = {}
    /\ pay' = [pay EXCEPT !.txpc = "idle"]
    /\ UNCHANGED <<users, events>>
    /\ PayOnly

\* poll_affiliate: select * from affiliate where status = Pending
AffScanStart ==
    /\ pay.affpc = "idle"
    /\ pay.affpasses < MaxPasses
    /\ pay' = [pay EXCEPT !.affpc = "rows",
                          !.affq = {a \in AffIds : pay.aff[a].status = "Pending"},
                          !.affpasses = @ + 1]
    /\ UNCHANGED <<users, events>>
    /\ PayOnly

\* poll_affiliate on one row of its scan
AffStep(a, msgOk) ==
    /\ pay.affpc = "rows"
    /\ a \in pay.affq
    /\ IF a \in pay.sent_ids
       THEN /\ pay' = [pay EXCEPT !.affq = @ \ {a}]
            /\ UNCHANGED users
       ELSE LET row == pay.aff[a]
                rest == IF msgOk THEN pay.affq \ {a} ELSE {}
                pc == IF msgOk THEN "rows" ELSE "idle"
                sent == IF msgOk THEN pay.sent_ids \cup {a} ELSE pay.sent_ids
            IN  IF LowerMethod(row.method) = "topup"
                THEN LET bal == UpdateUserBalance(users, row.email, row.amount)
                     IN  /\ users' = bal.users
                         /\ pay' = [pay EXCEPT
                                      !.aff[a].status =
                                          IF bal.ok THEN "Accepted" ELSE ClaimStatus,
                                      !.runs[a] = @ + 1,
                                      !.sent_ids = IF bal.ok THEN sent
                                                   ELSE pay.sent_ids \cup {a},
                                      !.affq = IF bal.ok THEN rest ELSE pay.affq \ {a},
                                      !.affpc = IF bal.ok THEN pc ELSE "rows"]
                ELSE /\ pay' = [pay EXCEPT
                                  !.aff[a].status = ClaimStatus,
                                  !.runs[a] = @ + 1,
                                  !.sent_ids = sent,
                                  !.affq = rest, !.affpc = pc]
                     /\ UNCHANGED users
    /\ UNCHANGED events
    /\ PayOnly

\* the for loop is over: time.sleep(10)
AffScanEnd ==
    /\ pay.affpc = "rows"
    /\ pay.affq = {}
    /\ pay' = [pay EXCEPT !.affpc = "idle"]
    /\ UNCHANGED <<users, events>>
    /\ PayOnly

\* /Yes <id>
OperatorYes(t) ==
    /\ events < MaxCalls
    /\ LET bal == UpdateUserBalance(users, pay.tx[t].email, pay.tx[t].amount)
       IN  /\ users' = bal.users
           /\ pay' = [pay EXCEPT !.tx[t].status = "Accepted",
                                 !.credits[t] = @ + (IF bal.ok THEN 1 ELSE 0)]
    /\ events' = events + 1
    /\ PayOnly

\* /No <id>
OperatorNo(t) ==
    /\ events < MaxCalls
    /\ pay' = [pay EXCEPT !.tx[t].status = "Failed"]
    /\ events' = events + 1
    /\ UNCHANGED users
    /\ PayOnly

\* /Use <TransactionID>
OperatorUse(txid) ==
    /\ events < MaxCalls
    /\ LET vp1 == UpdateVerifyStatus(pay.vp, txid, "used")
       IN  pay' = [pay EXCEPT !.vp = vp1, !.marks = Marked(vp1, "use", "none")]
    /\ events' = events + 1
    /\ UNCHANGED users
    /\ PayOnly

NextPay ==
    \/ TxScanStart
    \/ \E t \in TxIds, msgOk \in BOOLEAN : TxStep(t, msgOk)
    \/ \E t \in TxIds : TxClaimFails(t)
    \/ TxScanEnd
    \/ AffScanStart
    \/ \E a \in AffIds, msgOk \in BOOLEAN : AffStep(a, msgOk)
    \/ AffScanEnd
    \/ \E t \in TxIds : OperatorYes(t) \/ OperatorNo(t)
    \/ \E txid \in PayRefs : OperatorUse(txid)

SpecPay == InitPay /\ [][NextPay]_vars

----------------------------------------------------------------------------
\* Vocabulary of the properties of the reconciler

\* The lifecycle state a status string names ("Cancelled" is read as Canceled)
StateOf(s) == IF Lower(s) = "cancelled" THEN "canceled" ELSE Lower(s)

RuleCompleted(old, new) == StateOf(new) = "completed" /\ StateOf(old) # "completed"

RuleReversal(old, new) ==
    StateOf(old) = "completed" /\ StateOf(new) \in {"partial", "canceled"}

RuleRefund(old, new) ==
    /\ StateOf(new) \in {"partial", "canceled"}
    /\ StateOf(old) \notin {"completed", "partial", "canceled"}

\* The reconciler ran on an order whose service row was found
Called == call.done /\ call.svc # NoService

CallUser == UserByEmail(call.row.email)

OtherServicesSame == \A s \in ServiceIds \ {call.svc} : sold[s] = call.pre.sold[s]

\* C1: a reconciler call with old = new (case-insensitively), or with a pair no
\* transition rule matches, leaves the sold quantities, the users (total_spend,
\* balance, withdrawable balance) and the order (status, refund_amount) as they were.
C1_NoOpOutsideRules ==
    (call.done /\ (\/ StateOf(call.old) = StateOf(call.new)
                   \/ ~(\/ RuleCompleted(call.old, call.new)
                        \/ RuleReversal(call.old, call.new)
                        \/ RuleRefund(call.old, call.new))))
    => /\ sold = call.pre.sold
       /\ users = call.pre.users
       /\ orders = call.pre.orders

C1_Witness ==
    /\ Called
    /\ call.old = "Partial" /\ call.new = "Canceled"
    /\ call.row.quantity = 5 /\ call.row.remain = 2
    /\ call.row.sell_charge = USD(10) /\ call.row.email = "u@x"
    /\ users = call.pre.users /\ sold = call.pre.sold

\* C3: a call with new in {Partial, Canceled} and old not in {Completed, Partial,
\* Canceled} adds done_qty = max(0, qty - remain) to the sold quantity and, when
\* qty > 0 and sell_price > 0, adds sell_price - refund to total_spend, credits
\* refund = (sell_price / qty) * remain to the balance and stores the order as
\* Refunded with that refund_amount (qty 5, remain 2, price 10: 3, 4 and 6).
C3_RefundTransition ==
    (Called /\ RuleRefund(call.old, call.new)) =>
      LET row == call.row
          qty == row.quantity
          remain == row.remain
          price == row.sell_charge
          done_qty == IF qty - remain > 0 THEN qty - remain ELSE 0
      IN  /\ sold[call.svc] = call.pre.sold[call.svc] + done_qty
          /\ OtherServicesSame
          /\ (qty > 0 /\ price > 0) =>
               LET refund == (price * remain) \div qty
               IN  /\ \A u \in CallUser :
                         /\ users[u].total_spend =
                              call.pre.users[u].total_spend + (price - refund)
                         /\ users[u].balance_usd =
                              call.pre.users[u].balance_usd + refund
                   /\ orders[call.order].status = "Refunded"
                   /\ orders[call.order].refund_amount = <<refund>>
          /\ (qty = 5 /\ remain = 2 /\ price = USD(10)) =>
               /\ done_qty = 3
               /\ orders[call.order].refund_amount = <<USD(4)>>
               /\ \A u \in CallUser :
                     /\ users[u].balance_usd = call.pre.users[u].balance_usd + USD(4)
                     /\ users[u].total_spend = call.pre.users[u].total_spend + USD(6)

C3_Witness ==
    /\ Called
    /\ call.old = "Pending" /\ call.new = "Canceled"
    /\ call.row.quantity = 5 /\ call.row.remain = 2
    /\ call.row.sell_charge = USD(10) /\ call.row.email = "u@x"
    /\ orders[call.order].status = "Refunded"
    /\ users["u"].balance_usd = call.pre.users["u"].balance_usd + USD(4)

\* The referral/bonus step of the call found the referral owner it looked up
StepCompletes(u) == call.pre.users[u].ref_owner_id \in UserIds \cup {NoOwner}

\* What the claims call the refund of a reversal
ClaimedReversalRefund(row) ==
    IF row.remain = 0 THEN row.sell_charge
    ELSE (row.remain * row.sell_charge) \div row.quantity

\* Effects of a reversal that refunds `refund`
ReversalRefunds(refund) ==
    /\ \A u \in CallUser :
          LET spend == IF call.pre.users[u].total_spend - refund > 0
                       THEN call.pre.users[u].total_spend - refund ELSE 0
              bonus == IF spend > USD(10) /\ StepCompletes(u)
                       THEN refund \div 100 ELSE 0
              owner == call.pre.users[u].ref_owner_id
          IN  /\ users[u].total_spend = spend
              /\ users[u].balance_usd = call.pre.users[u].balance_usd + refund - bonus
              /\ owner \in UserIds =>
                    users[owner].withdrawable_balance =
                        call.pre.users[owner].withdrawable_balance - (refund * 4) \div 100
    /\ orders[call.order].status = "Refunded"
    /\ orders[call.order].refund_amount = <<refund>>

ReversalSoldOnly ==
    /\ sold[call.svc] = (IF call.pre.sold[call.svc] - call.row.quantity > 0
                         THEN call.pre.sold[call.svc] - call.row.quantity ELSE 0)
    /\ OtherServicesSame

\* C4 as stated: every call with old = Completed and new in {Partial, Canceled}
\* sets sold to max(0, sold - qty), refunds sell_price (remain = 0) or
\* (remain / qty) * sell_price, lowers total_spend by it (floored at 0), credits
\* the balance, stores the order as Refunded and reverses referral and bonus.
\* (The refund divides by qty; calls with qty = 0 are left out.)
C4_AsStated ==
    (Called /\ RuleReversal(call.old, call.new)) =>
        /\ ReversalSoldOnly
        /\ call.row.quantity > 0 => ReversalRefunds(ClaimedReversalRefund(call.row))

\* C4 amended: the sold quantity always becomes max(0, sold - qty); the refund,
\* the total_spend and balance changes, the Refunded status with refund_amount and
\* the referral/bonus reversal happen when the order has an email and a non-zero
\* quantity and sell price; otherwise users and order are left as they were.
C4_ReversalTransition ==
    (Called /\ RuleReversal(call.old, call.new)) =>
        /\ ReversalSoldOnly
        /\ IF /\ call.row.email # NoEmail
              /\ call.row.quantity # 0
              /\ call.row.sell_charge # 0
           THEN ReversalRefunds(ClaimedReversalRefund(call.row))
           ELSE users = call.pre.users /\ orders = call.pre.orders

C4_Witness ==
    /\ Called
    /\ call.old = "Completed" /\ call.new = "Partial"
    /\ call.row.quantity = 5 /\ call.row.remain = 2
    /\ call.row.sell_charge = USD(20) /\ call.row.email = "u@x"
    /\ call.pre.users["u"].total_spend = USD(30)
    /\ call.pre.users["u"].ref_owner_id = "w"
    /\ orders[call.order].refund_amount = <<USD(8)>>
    /\ users["u"].total_spend = USD(22)

\* C5: a call with new = Completed and old # Completed adds the full quantity to
\* the sold quantity and, if the order has an email and a sell price, adds
\* sell_price to total_spend; the balance receives no refund (only the 1% bonus
\* of the sub-rule, if any) and the order row is not rewritten.
C5_CompletedTransition ==
    (Called /\ RuleCompleted(call.old, call.new)) =>
      LET row == call.row
          price == row.sell_charge
      IN  /\ sold[call.svc] = call.pre.sold[call.svc] + row.quantity
          /\ OtherServicesSame
          /\ \A u \in CallUser :
                /\ users[u].total_spend =
                      call.pre.users[u].total_spend +
                          (IF row.email # NoEmail /\ price # 0 THEN price ELSE 0)
                /\ users[u].balance_usd - call.pre.users[u].balance_usd
                      \in {0, price \div 100}
          /\ orders = call.pre.orders

C5_Witness ==
    /\ Called
    /\ call.old = "Processing" /\ call.new = "Completed"
    /\ call.row.quantity = 5 /\ call.row.remain = 0
    /\ call.row.sell_charge = USD(10) /\ call.row.email = "u@x"
    /\ sold[call.svc] = call.pre.sold[call.svc] + 5
    /\ users["u"].total_spend = call.pre.users["u"].total_spend + USD(10)
    /\ orders[call.order].refund_amount = NoRefund

\* C8: the referral/bonus sub-rule with (amount, add), as run by a completion
\* (amount = sell_price, add) and by a reversal (amount = refund, not add):
\* the referral owner's withdrawable balance changes by +/- 4% of amount, the
\* user's own balance by +/- 1% of amount if the total_spend the sub-rule reads
\* exceeds 10, and nothing changes without owner and with total_spend <= 10
\* (sell_price 20: +0.80 to the owner, +0.20 to the user).  The owner is one
\* that has a users row; the sub-rule ends at the lookup of any other.
C8_ReferralAndBonus ==
    /\ (Called /\ RuleCompleted(call.old, call.new)) =>
         \A u \in CallUser :
            LET amount == call.row.sell_charge
                owner == call.pre.users[u].ref_owner_id
                exceeds == users[u].total_spend > USD(10) /\ StepCompletes(u)
            IN  /\ owner \in UserIds =>
                      users[owner].withdrawable_balance =
                          call.pre.users[owner].withdrawable_balance + (amount * 4) \div 100
                /\ users[u].balance_usd =
                      call.pre.users[u].balance_usd +
                          (IF exceeds THEN amount \div 100 ELSE 0)
                /\ (owner = NoOwner /\ ~exceeds) =>
                      \A v \in UserIds :
                         /\ users[v].balance_usd = call.pre.users[v].balance_usd
                         /\ users[v].withdrawable_balance =
                               call.pre.users[v].withdrawable_balance
                /\ (amount = USD(20) /\ owner \in UserIds /\ exceeds) =>
                      /\ users[owner].withdrawable_balance =
                            call.pre.users[owner].withdrawable_balance + 400
                      /\ users[u].balance_usd = call.pre.users[u].balance_usd + 100
    /\ (Called /\ RuleReversal(call.old, call.new) /\ call.row.email # NoEmail
           /\ call.row.quantity # 0 /\ call.row.sell_charge # 0) =>
         \A u \in CallUser :
            LET amount == ClaimedReversalRefund(call.row)
                owner == call.pre.users[u].ref_owner_id
                exceeds == users[u].total_spend > USD(10) /\ StepCompletes(u)
            IN  /\ owner \in UserIds =>
                      users[owner].withdrawable_balance =
                          call.pre.users[owner].withdrawable_balance - (amount * 4) \div 100
                /\ users[u].balance_usd =
                      call.pre.users[u].balance_usd + amount -
                          (IF exceeds THEN amount \div 100 ELSE 0)
                /\ owner = NoOwner =>
                      \A v \in UserIds :
                         users[v].withdrawable_balance =
                             call.pre.users[v].withdrawable_balance

C8_Witness ==
    /\ Called
    /\ call.old = "Processing" /\ call.new = "Completed"
    /\ call.row.sell_charge = USD(20) /\ call.row.email = "u@x"
    /\ call.pre.users["u"].ref_owner_id = "w"
    /\ call.pre.users["u"].total_spend = USD(30)
    /\ users["w"].withdrawable_balance = call.pre.users["w"].withdrawable_balance + 400
    /\ users["u"].balance_usd = call.pre.users["u"].balance_usd + 100

\* The call reached the balance adjustment of a refunding transition
RefundAttempted ==
    \/ /\ RuleRefund(call.old, call.new)
       /\ call.row.quantity > 0 /\ call.row.sell_charge > 0
    \/ /\ RuleReversal(call.old, call.new)
       /\ call.row.email # NoEmail
       /\ call.row.quantity # 0 /\ call.row.sell_charge # 0

\* C11: when the balance adjustment of a refunding transition fails (here: no
\* user has the order's email), the order is not stored as Refunded and no
\* refund_amount is stored.
C11_FailedAdjustmentNotRefunded ==
    (Called /\ RefundAttempted /\ CallUser = {}) =>
        /\ orders[call.order].status # "Refunded"
        /\ orders[call.order].refund_amount = NoRefund

----------------------------------------------------------------------------
\* Properties of the running system

TerminalWords == {"partial", "canceled", "cancelled"}

\* Only one terminal status was ever reported for the order, and no completion
OneTerminalReported(o) ==
    \E t \in TerminalWords : acct[o].seen \subseteq {"in progress", t}

\* C2: when the same terminal status (Partial or Canceled) is reported again and
\* again for an order, by status polls or by /F, the balance is credited a refund
\* for it at most once and the sold quantity is adjusted for it at most once.
C2_SideEffectsOnce ==
    \A o \in OrderIds :
        OneTerminalReported(o) => acct[o].refunds <= 1 /\ acct[o].soldAdj <= 1

\* C6: no service's sold quantity and no user's total_spend is ever below zero.
C6_NonNegative ==
    /\ \A s \in ServiceIds : sold[s] >= 0
    /\ \A u \in UserIds : users[u].total_spend >= 0

\* The reconciler ran for the order exactly a completion and then a reversal,
\* the order ended Refunded and its user exists
CompletedThenRefunded(o) ==
    /\ acct[o].path = <<"completed", "reversal">>
    /\ orders[o].status = "Refunded"
    /\ orders[o].refund_amount # NoRefund
    /\ UserByEmail(orders[o].email) # {}

\* C7 as stated: over a Completed-then-Refunded lifecycle, the sum of the changes
\* applied to total_spend minus the stored refund_amount equals sell_price.
C7_AsStated ==
    \A o \in OrderIds :
        CompletedThenRefunded(o) =>
            acct[o].spend - Head(orders[o].refund_amount) = orders[o].sell_charge

\* C7 amended: over a Completed-then-Refunded lifecycle of an order whose user
\* exists, the sum of the changes applied to total_spend PLUS the stored
\* refund_amount equals sell_price, unless the floor at zero cut the decrease.
C7_Conservation ==
    \A o \in OrderIds :
        (CompletedThenRefunded(o) /\ ~acct[o].floored) =>
            acct[o].spend + Head(orders[o].refund_amount) = orders[o].sell_charge

C7_Witness ==
    \E o \in OrderIds :
        /\ CompletedThenRefunded(o)
        /\ ~acct[o].floored
        /\ orders[o].sell_charge = USD(10)
        /\ orders[o].refund_amount = <<USD(4)>>
        /\ acct[o].spend = USD(6)

----------------------------------------------------------------------------
\* Properties of the balance ledger

LedgerQuiet == \A t \in ThreadIds : thr[t].pc = "idle"

\* The lock serialises the calls: what is stored is the initial balance plus the
\* deltas whose update the store persisted
LedgerSerialised ==
    LedgerQuiet =>
        \A u \in UserIds :
            users[u].balance_usd = ledger[u].initial + ledger[u].persisted

\* C9: whatever the interleaving of concurrent update_user_balance calls, once
\* they have returned the stored balance is the initial balance plus the sum of
\* the deltas of the calls that returned success.
C9_NoLostUpdate ==
    LedgerQuiet =>
        \A u \in UserIds :
            users[u].balance_usd = ledger[u].initial + ledger[u].returnedTrue

\* C10: update_user_balance returns True only if the new balance was persisted
\* (it returns False when the user is missing, when the read fails and when the
\* write fails).
C10_FailureReported ==
    \A t \in ThreadIds : thr[t].ret = "True" => thr[t].wrote

----------------------------------------------------------------------------
\* Properties of the executors

\* What the specification calls the Resilient Executor
Executors == {"safe_request", "safe_execute"}

Finished == ex.pc = "done"

FailedTransiently(i) ==
    ex.outcomes[i] # "ok" /\ is_transient_exception(ex.outcomes[i])

\* C12: an executor run with retries = N (N >= 1) invokes the operation at most
\* N times; a returned result is that of the first invocation that succeeded;
\* and when all N invocations fail with transient errors the run ends by raising
\* the last error, not by returning.
C12_RetryTermination ==
    (Finished /\ ex.wrapper \in Executors /\ ex.retries >= 1) =>
        /\ ex.attempt <= ex.retries
        /\ ex.result = "returned" =>
              /\ ex.attempt >= 1
              /\ ex.outcomes[ex.attempt] = "ok"
              /\ \A i \in 1..(ex.attempt - 1) : ex.outcomes[i] # "ok"
        /\ (\A i \in 1..ex.retries : FailedTransiently(i)) =>
              /\ ex.result = "raised"
              /\ ex.error = ex.outcomes[ex.retries]

\* C13: when an invocation fails with an error is_transient_exception calls
\* fatal, it is the last invocation, no delay follows it and the run ends by
\* raising that error.
C13_FatalPropagates ==
    (Finished /\ ex.wrapper \in Executors) =>
        \A i \in 1..ex.attempt :
            (ex.outcomes[i] # "ok" /\ ~is_transient_exception(ex.outcomes[i])) =>
                /\ i = ex.attempt
                /\ ex.delays = i - 1
                /\ ex.result = "raised"
                /\ ex.error = ex.outcomes[i]

\* The supplier refuses a place-order request: its answer carries an error
\* status and raise_for_status raises
Rejection(site, e) == site = "place_order" /\ e = "HTTPError"

\* Network timeouts, connections reset, aborted or broken, and request-layer
\* exceptions, a refusal by the supplier excepted
TransientAsClaimed(site, e) ==
    /\ ~Rejection(site, e)
    /\ \/ e \in {"Timeout", "ReadTimeout", "ConnectionError", "BrokenPipeError"}
       \/ ErrorInfo[e].requests

\* C14: the executor treats an error as transient exactly if it is a network
\* timeout, a connection reset/aborted or a request-layer exception other than
\* the supplier's refusal of a place-order request; a refusal is fatal and the
\* request is not sent again after it.
C14_Classification ==
    ex.wrapper = "safe_request" =>
        \A i \in 1..ex.attempt :
            LET e == ex.outcomes[i]
            IN  e # "ok" =>
                  /\ is_transient_exception(e) <=> TransientAsClaimed(ex.site, e)
                  /\ Rejection(ex.site, e) => e \notin ex.retried

\* C15: at every call site, a call whose first invocations fail transiently and
\* which would succeed on a later invocation within the attempt budget is made
\* again until it succeeds.
C15_EveryCallRetried ==
    (Finished /\ \E k \in 2..ex.retries :
                    /\ ex.outcomes[k] = "ok"
                    /\ \A i \in 1..(k - 1) : FailedTransiently(i))
    => ex.result = "returned"

----------------------------------------------------------------------------
\* Properties of the status loop's pass

\* C16: a notification that cannot be delivered stops no write: every row a
\* pass of the status loop selected is processed in that pass (its status and
\* remain written, the reconciler run on a change), whatever happened to the
\* notifications of the rows before it.
C16_NotificationNeverBlocks == scan.dropped = {}

----------------------------------------------------------------------------
\* Properties of the dispatcher

\* C17: no place-order request is ever sent for a Pending smmgen order whose
\* supplier reference is present (not null, empty or zero); the dispatcher
\* passes over such a row.
C17_NoSubmissionWithReference ==
    \A o \in OrderIds :
        /\ disp[o].refSubmits = 0
        /\ disp[o].last = "skipped" =>
              /\ disp[o].wrote = {}
              /\ disp[o].after.status = "Pending"

C17_Witness ==
    \E o \in OrderIds :
        /\ disp[o].skips > 0
        /\ disp[o].submits = 0
        /\ orders[o].status = "Pending"
        /\ orders[o].supplier_name = "smmgen"
        /\ orders[o].supplier_order_id = AcceptedId

C19_FailedDispatch ==
    \A o \in OrderIds :
        /\ disp[o].last = "failed" =>
              /\ disp[o].wrote = {<<"status", "Canceled">>,
                                  <<"supplier_order_id", FailedDispatchId>>}
              /\ disp[o].recs = <<<<"Pending", "Canceled">>>>
              /\ "failure" \in disp[o].notes
              /\ disp[o].after.supplier_order_id = FailedDispatchId
              /\ disp[o].after.status \in {"Canceled", "Refunded"}
              /\ orders[o].supplier_order_id = FailedDispatchId
        /\ disp[o].last # "failed" => disp[o].recs = <<>>

C19_Witness ==
    \E o \in OrderIds :
        /\ disp[o].last = "failed"
        /\ orders[o].quantity = 5 /\ orders[o].remain = 5
        /\ orders[o].sell_charge = USD(10) /\ orders[o].email = "u@x"
        /\ orders[o].status = "Refunded"
        /\ orders[o].supplier_order_id = FailedDispatchId
        /\ acct[o].refunds = 1

----------------------------------------------------------------------------
\* Failures inside the reconciler

\* C21: when the service row of the order cannot be resolved the reconciler
\* writes nothing, for every (old, new): sold quantities, users and the order
\* are as they were before the call.
C21_NoServiceNoWrites ==
    (call.done /\ call.svc = NoService) =>
        /\ sold = call.pre.sold
        /\ users = call.pre.users
        /\ orders = call.pre.orders

C21_Witness ==
    /\ call.done /\ call.svc = NoService
    /\ call.row.service = "TikTok"
    /\ call.old = "Processing" /\ call.new = "Canceled"
    /\ call.row.quantity = 5 /\ call.row.remain = 2
    /\ call.row.sell_charge = USD(10) /\ call.row.email = "u@x"
    /\ orders[call.order].status = "Processing"
    /\ users["u"].balance_usd = call.pre.users["u"].balance_usd

\* The referral/bonus step of the call fails at a lookup: no users row for the
\* order's email, or none for the referral owner id
StepFails ==
    \/ CallUser = {}
    \/ \E u \in CallUser : ~StepCompletes(u)

\* C22: when the referral/bonus step fails at the lookup of the user or of the
\* referral owner, only that step is lost: a completion has added qty to the
\* sold quantity and sell_price to total_spend, a reversal has lowered the sold
\* quantity and total_spend, credited the refund and stored the order as
\* Refunded with refund_amount; no withdrawable balance and no bonus is applied.
C22_StepFailureKeepsPrimary ==
    (Called /\ StepFails) =>
        /\ RuleCompleted(call.old, call.new) =>
              /\ sold[call.svc] = call.pre.sold[call.svc] + call.row.quantity
              /\ \A u \in CallUser :
                    /\ users[u].total_spend =
                          call.pre.users[u].total_spend + call.row.sell_charge
                    /\ users[u].balance_usd = call.pre.users[u].balance_usd
        /\ (/\ RuleReversal(call.old, call.new)
            /\ call.row.email # NoEmail
            /\ call.row.quantity # 0 /\ call.row.sell_charge # 0) =>
              LET refund == ClaimedReversalRefund(call.row)
              IN  /\ ReversalSoldOnly
                  /\ orders[call.order].status = "Refunded"
                  /\ orders[call.order].refund_amount = <<refund>>
                  /\ \A u \in CallUser :
                        /\ users[u].total_spend =
                              Max(0, call.pre.users[u].total_spend - refund)
                        /\ users[u].balance_usd =
                              call.pre.users[u].balance_usd + refund
        /\ \A v \in UserIds :
              users[v].withdrawable_balance = call.pre.users[v].withdrawable_balance

C22_Witness ==
    /\ Called
    /\ call.old = "Completed" /\ call.new = "Canceled"
    /\ call.row.quantity = 5 /\ call.row.remain = 0
    /\ call.row.sell_charge = USD(10) /\ call.row.email = "u@x"
    /\ call.pre.users["u"].ref_owner_id = GoneOwner
    /\ call.pre.users["u"].total_spend = USD(30)
    /\ orders[call.order].status = "Refunded"
    /\ users["u"].balance_usd = call.pre.users["u"].balance_usd + USD(10)
    /\ users["u"].total_spend = USD(20)

----------------------------------------------------------------------------
\* The lifecycle of the stored status

LifecycleStatuses ==
    {"Pending", "Processing", "Completed", "Partial", "Canceled", "Refunded"}

AllowedChanges ==
    {<<"Pending", "Processing">>, <<"Pending", "Canceled">>,
     <<"Processing", "Completed">>, <<"Processing", "Partial">>,
     <<"Processing", "Canceled">>,
     <<"Completed", "Refunded">>, <<"Partial", "Refunded">>,
     <<"Canceled", "Refunded">>}

\* C23: the stored status of an order changes only along Pending -> Processing,
\* Pending -> Canceled, Processing -> Completed / Partial / Canceled and
\* Completed / Partial / Canceled -> Refunded: every change of a stored status
\* any handler has made is one of these.
C23_LifecycleOnly == \A o \in OrderIds : acct[o].trans \subseteq AllowedChanges

\* C24: whatever the supplier returns, the stored status of every order is one
\* of Pending, Processing, Completed, Partial, Canceled, Refunded.
C24_StatusInSet == \A o \in OrderIds : orders[o].status \in LifecycleStatuses

----------------------------------------------------------------------------
\* Who changes the sold quantities and total_spend

SoldChanged == sold' # sold

SpendChanged == \E u \in UserIds : users'[u].total_spend # users[u].total_spend

\* the step is a reconciler call that ran one of its three branches
ReconcilerActed ==
    \E o \in OrderIds :
        /\ Len(acct'[o].path) = Len(acct[o].path) + 1
        /\ acct'[o].path[Len(acct'[o].path)] \in {"completed", "reversal", "refund"}

\* the step is the profit report setting sold quantities to 0
ProfitResetStep ==
    /\ \A s \in ServiceIds : sold'[s] \in {sold[s], 0}
    /\ orders' = orders /\ users' = users /\ acct' = acct /\ disp' = disp

\* C29 as stated: a sold quantity or a total_spend changes only in a step in
\* which the reconciler runs a transition rule.
C29_AsStated == [][(SoldChanged \/ SpendChanged) => ReconcilerActed]_vars

\* C29 amended: total_spend changes only in a step in which the reconciler runs
\* a transition rule, and a sold quantity changes only in such a step or when
\* the profit report resets it to 0; an accepted dispatch, a manual dispatch
\* and a status poll that finds no change leave both as they were.
C29_SoldAndSpendFrame ==
    [][/\ SpendChanged => ReconcilerActed
       /\ SoldChanged => (ReconcilerActed \/ ProfitResetStep)
       /\ \A o \in OrderIds :
             (/\ disp'[o] # disp[o]
              /\ disp'[o].last \in {"accepted", "manual", "skipped"})
             => ~SoldChanged /\ ~SpendChanged
       /\ \A o \in OrderIds :
             (acct'[o].seen # acct[o].seen /\ acct'[o].path = acct[o].path
                 /\ orders'[o].status = orders[o].status)
             => ~SoldChanged /\ ~SpendChanged]_vars

C29_Witness ==
    \E o \in OrderIds :
        /\ acct[o].path = <<"completed">>
        /\ acct[o].soldAdj = 1
        /\ orders[o].quantity = 5
        /\ disp[o].last = "accepted"
        /\ \A s \in ServiceIds : sold[s] = 0

----------------------------------------------------------------------------
\* The status loop and the reconciler

Polled == scan.last.row # "none"

\* the reconciler call of the last poll returned at the service lookup
LookupFailed ==
    /\ Polled
    /\ scan.last.calls # <<>>
    /\ FindService(orders[scan.last.row]) = {NoService}

\* C27: when the handling of a detected status change fails before its side
\* effects are applied (here: the service row is not found), the stored status
\* has not been advanced, so that a later poll detects the same change again.
C27_FailedChangeNotAdvanced ==
    LookupFailed => scan.last.after = scan.last.stored

\* C30: in each poll of an order the status loop calls the reconciler if and
\* only if the reported status differs, case-insensitively, from the status
\* stored before the poll's update, and then once, with that stored status as
\* old and the reported status as new.
C30_OneCallPerChange ==
    Polled =>
        /\ scan.last.calls # <<>> <=>
              Lower(scan.last.stored) # Lower(scan.last.reported)
        /\ scan.last.calls # <<>> =>
              scan.last.calls = <<<<scan.last.stored, scan.last.reported>>>>

C30_Witness ==
    /\ Polled
    /\ scan.passes = 2
    /\ scan.last.stored = "In progress"
    /\ scan.last.reported = "Completed"
    /\ scan.last.calls = <<<<"In progress", "Completed">>>>
    /\ acct[scan.last.row].path = <<"completed">>

----------------------------------------------------------------------------
\* Top-ups

\* the mark says the row was consumed by a transaction whose reference, method
\* and amount are the row's
ConsumedByMatch(v, m) ==
    /\ m.by = "loop"
    /\ m.tx \in TxIds
    /\ pay.tx[m.tx].transaction_id = pay.vp[v].transaction_id
    /\ pay.tx[m.tx].method = pay.vp[v].method
    /\ pay.tx[m.tx].amount = pay.vp[v].amount_usd

\* C25: a VerifyPayment row goes from unused to used at most once, and only by
\* being consumed by a transaction with the same reference, method and amount:
\* not by an operator command, and not because another row with the same
\* reference was consumed.
C25_UsedOnlyByMatch ==
    \A v \in DOMAIN pay.marks :
        /\ Len(pay.marks[v]) <= 1
        /\ \A i \in DOMAIN pay.marks[v] : ConsumedByMatch(v, pay.marks[v][i])

\* C28: the processing step of a transaction or affiliate row is run by its
\* loop at most once, and a row whose step has run is no longer Pending, so no
\* later scan selects it.
C28_ClaimedOnce ==
    /\ \A r \in DOMAIN pay.runs : pay.runs[r] <= 1
    /\ \A t \in TxIds \cap DOMAIN pay.runs :
          pay.runs[t] >= 1 => pay.tx[t].status # "Pending"
    /\ \A a \in AffIds \cap DOMAIN pay.runs :
          pay.runs[a] >= 1 => pay.aff[a].status # "Pending"

C28_Witness ==
    /\ pay.txpasses = 2 /\ pay.txpc = "idle"
    /\ pay.affpasses = 2 /\ pay.affpc = "idle"
    /\ pay.runs = [r \in TxIds \cup AffIds |-> 1]
    /\ pay.tx["t1"].status = "Accepted"
    /\ pay.tx["t2"].status = "Processing"
    /\ pay.aff["a1"].status = "Accepted"
    /\ users["u"].balance_usd = USD(15)

----------------------------------------------------------------------------
\* The five polling threads: what an iteration may raise and where it is caught

ErrorKinds == {"store", "http", "notification", "data"}

\* The errors that can leave the statements of a loop's body: the orders loop
\* reaches the store through safe_execute and sends through safe_send, which
\* raise nothing, and send_to_smmgen answers a failed request with a result
RaisedKinds(l) ==
    CASE l = "orders" -> {"data"}
      [] l = "status" -> {"store", "http", "notification", "data"}
      [] l = "transactions" -> {"store", "notification", "data"}
      [] l = "affiliate" -> {"store", "notification", "data"}
      [] l = "support" -> {"store", "notification"}

Enclosed_StoreOnly(l, e) == e = "store"

\* every statement of the while body is inside try ... except Exception
Enclosed(l, e) == TRUE

\* the orders loop sleeps only in its except clause
SleepsAfterScan(l) == l # "orders"

OnlyLoop(l) ==
    /\ \A k \in LoopIds \ {l} : loop'[k] = loop[k]
    /\ UNCHANGED <<orders, sold, users, call, acct, events, lock, thr, ledger,
                   disp, ex, scan, pay>>

\* one pass through the try block of loop l
Iterate(l, outcome) ==
    /\ loop[l].pc = "scan"
    /\ outcome \in RaisedKinds(l) \cup {"ok"}
    /\ loop' = [loop EXCEPT
                  ![l] = [pc |-> IF outcome = "ok"
                                 THEN (IF SleepsAfterScan(l) THEN "sleep" ELSE "scan")
                                 ELSE IF Enclosed(l, outcome) THEN "caught"
                                 ELSE "dead",
                          err |-> IF outcome = "ok" THEN "none" ELSE outcome,
                          recovered |-> @.recovered]]
    /\ OnlyLoop(l)

\* the except clause: print, then on to the sleep
LogError(l) ==
    /\ loop[l].pc = "caught"
    /\ loop' = [loop EXCEPT ![l] = [pc |-> "sleep", err |-> "none",
                                     recovered |-> TRUE]]
    /\ OnlyLoop(l)

\* time.sleep returns
Wake(l) ==
    /\ loop[l].pc = "sleep"
    /\ loop' = [loop EXCEPT ![l].pc = "scan"]
    /\ OnlyLoop(l)

LoopStep(l) ==
    \/ \E outcome \in ErrorKinds \cup {"ok"} : Iterate(l, outcome)
    \/ LogError(l)
    \/ Wake(l)

InitLoops ==
    /\ orders = [o \in OrderIds |->
                    OrderRow(o, "Pending", 0, 0, 0, NoEmail, "IG Likes", "smmgen",
                             "None")]
    /\ sold = [s \in ServiceIds |-> 0]
    /\ users = UserRows(0, NoOwner)
    /\ call = NoCall
    /\ acct = NoAcct
    /\ events = 0
    /\ LedgerIdle
    /\ disp = NoDisp
    /\ HelpersIdle

NextLoops == \E l \in LoopIds : LoopStep(l)

\* each loop is a thread of its own, and print and time.sleep return
SpecLoops ==
    /\ InitLoops
    /\ [][NextLoops]_vars
    /\ \A l \in LoopIds : WF_vars(LoopStep(l))

\* C26: no polling loop ever terminates: whatever error an iteration of the
\* orders, status, transactions, affiliate or support loop raises, the loop
\* catches it and goes on to its next scan.
C26_LoopsNeverStop ==
    /\ [](\A l \in LoopIds : loop[l].pc # "dead")
    /\ \A l \in LoopIds : (loop[l].pc = "caught") ~> (loop[l].pc = "scan")

C26_Witness == \A l \in LoopIds : loop[l].recovered /\ loop[l].pc = "scan"

----------------------------------------------------------------------------
\* Retry delays

\* The default base_delay of the safe_execute of line 626, in milliseconds
base_delay == 500

Pow2(k) == IF k = 0 THEN 1 ELSE IF k = 1 THEN 2 ELSE IF k = 2 THEN 4 ELSE 8

\* The wait the specification gives after the k-th failed attempt, k from 0
ClaimedDelay(wrapper, k) ==
    IF wrapper = "safe_execute" THEN base_delay * Pow2(k) ELSE (1 + 2 * k) * 1000

\* C31: a finished executor run took its waits only between attempts, the wait
\* after the k-th failed attempt (k from 0) being base_delay * 2^k under
\* safe_execute and 1 + 2k seconds under safe_request; and a run whose N
\* attempts all failed transiently took N - 1 waits and ended by raising.
C31_RetryDelays ==
    (Finished /\ ex.wrapper \in Executors /\ ex.retries >= 1) =>
        /\ Len(ex.waits) = ex.attempt - 1
        /\ \A k \in 0..(Len(ex.waits) - 1) :
              ex.waits[k + 1] = ClaimedDelay(ex.wrapper, k)
        /\ (\A i \in 1..ex.retries : FailedTransiently(i)) =>
              /\ ex.attempt = ex.retries
              /\ Len(ex.waits) = ex.retries - 1
              /\ ex.result = "raised"

\* The same of safe_request alone
RequestDelaysAsClaimed ==
    (Finished /\ ex.wrapper = "safe_request" /\ ex.retries >= 1) =>
        /\ Len(ex.waits) = ex.attempt - 1
        /\ \A k \in 0..(Len(ex.waits) - 1) :
              ex.waits[k + 1] = ClaimedDelay(ex.wrapper, k)
        /\ (\A i \in 1..ex.retries : FailedTransiently(i)) =>
              /\ ex.attempt = ex.retries
              /\ ex.result = "raised"

----------------------------------------------------------------------------
\* The remain the status loop hands to the reconciler

\* The step ran the reconciler's refund rule for row p
RefundRuleRan(p) == acct'[p].path = Append(acct[p].path, "refund")

\* C32: when a poll of the status loop finds a row changed to Partial or
\* Canceled and the refund rule runs, the amount credited to the user and stored
\* as refund_amount, and the done quantity added to the service, are those of
\* the remain the supplier reported in that answer (the remain the row holds
\* after the poll).
C32_RefundFromReportedRemain ==
    [][\A p \in ScanOrderIds :
          RefundRuleRan(p) =>
              LET row == orders[p]
                  reported == orders'[p].remain
                  refund == PartialRefund(row.sell_charge, row.quantity, reported)
              IN  /\ orders'[p].refund_amount = <<refund>>
                  /\ \A u \in UserByEmail(row.email) :
                        users'[u].balance_usd = users[u].balance_usd + refund
                  /\ \A s \in FindService(row) :
                        sold'[s] = sold[s] + DoneQty(row.quantity, reported)]_vars

----------------------------------------------------------------------------
\* Properties of the dispatcher over a store whose writes may fail

\* C33: over any sequence of iterations of the orders loop, those in which a
\* store write fails included, the supplier's place-order call accepts an order
\* at most once.
C33_NoDoubleSubmission == \A o \in OrderIds : disp[o].accepts <= 1

\* The same with every write of the dispatcher made
AcceptedOnceWhenSaved == \A o \in OrderIds : disp[o].accepts <= 1

----------------------------------------------------------------------------
\* The status loop and the rows of failed dispatches

\* The step is the status loop asking the supplier about row o
Queried(o) ==
    \/ StatusPollUnknown(o)
    \/ \E st \in SupplierStatuses, rem \in Remains : StatusPoll(o, st, rem)

FailedDispatchRow(o) == orders[o].supplier_order_id = FailedDispatchId

\* C34: the status loop never asks the supplier about a row stored with the
\* sentinel reference of a failed dispatch, and no supplier answer changes the
\* status, the remain or the accounts of such a row.
C34_FailedDispatchNotPolled ==
    [][\A o \in OrderIds :
          FailedDispatchRow(o) =>
              /\ ~Queried(o)
              /\ Queried(o) => UNCHANGED <<orders, sold, users>>]_vars

\* The second half alone: a query about such a row changes nothing
SentinelRowUntouched ==
    [][\A o \in OrderIds :
          (FailedDispatchRow(o) /\ Queried(o)) => UNCHANGED <<orders, sold, users>>]_vars

----------------------------------------------------------------------------
\* The accounts of a failed dispatch

\* C35: when the dispatch of a Pending order whose remain is unset or zero
\* fails, the reconciliation of the failure credits the user's balance with the
\* whole sell_price, leaves the user's total_spend as it was and leaves the
\* sold quantity of every service as it was.
C35_FailedDispatchNotCharged ==
    [][\A o \in OrderIds :
          (DispatchFailed(o) /\ orders[o].remain = 0) =>
              /\ \A u \in UserByEmail(orders[o].email) :
                    /\ users'[u].balance_usd =
                           users[u].balance_usd + orders[o].sell_charge
                    /\ users'[u].total_spend = users[u].total_spend
              /\ sold' = sold]_vars

----------------------------------------------------------------------------
\* Liveness of the orders loop

LeftPending(o) == orders[o].status \in {"Processing", "Canceled", "Refunded"}

\* The loop body has a branch that writes the row: smmgen without a supplier
\* reference, or k2boost
Routed(o) ==
    \/ /\ Lower(orders[o].supplier_name) = "smmgen"
       /\ orders[o].supplier_order_id \in {"None", "", "0"}
    \/ Lower(orders[o].supplier_name) = "k2boost"

----------------------------------------------------------------------------
\* Crediting a top-up

\* C37: over any sequence of passes of the transaction loop and of /Yes
\* commands, the amount of a top-up transaction is added to the user's balance
\* at most once.
C37_CreditedOnce == \A t \in TxIds : pay.credits[t] <= 1

\* The transaction loop alone credits a transaction at most once
LoopCreditsOnce ==
    [][\A t \in TxIds :
          (pay'.credits[t] > pay.credits[t] /\ pay'.runs[t] > pay.runs[t]) =>
              pay.runs[t] = 0]_vars

----------------------------------------------------------------------------
\* Concurrent reconcilers

\* What the invocation of thread t adds to counter f
RaceDelta(t, f) ==
    IF \E i \in DOMAIN RaceFields[thr[t].rule] : RaceFields[thr[t].rule][i] = f
    THEN RaceNew(thr[t].rule, thr[t].order, f, 0)
    ELSE 0

\* C38: when two invocations of the reconciler have run concurrently for orders
\* of the same service and the same user, the service's sold quantity, the
\* user's total_spend and the referral owner's withdrawable balance are their
\* initial values plus the deltas of both invocations.
C38_NoLostUpdate ==
    (\A t \in ThreadIds : thr[t].pc = "done") =>
        \A f \in DOMAIN RaceStart :
            RaceStored(f) = RaceStart[f] + RaceDelta("t1", f) + RaceDelta("t2", f)

\* One invocation after the other loses nothing
RaceSerial ==
    (thr["t1"].pc = "done" /\ thr["t2"].pc = "read"
        /\ thr["t2"].todo = RaceFields[thr["t2"].rule]) =>
        \A f \in DOMAIN RaceStart : RaceStored(f) = RaceStart[f] + RaceDelta("t1", f)

----------------------------------------------------------------------------
\* The ledger's lock

\* C39: db_lock is held only by a thread inside the locked block of
\* update_user_balance, so every way out of the call (success, no such user, a
\* store error) has released it and no thread asks for it while holding it; and
\* every thread that asks for it leaves update_user_balance in the end.
C39_LockReleasedNoDeadlock ==
    /\ [](\A t \in ThreadIds : lock = t => thr[t].pc \in {"read", "write"})
    /\ [](lock \in ThreadIds \cup {"free"})
    /\ \A t \in ThreadIds : (thr[t].pc = "acquire") ~> (thr[t].pc = "idle")

\* Both threads have been through update_user_balance, one returning True and
\* the other False, and the lock is free
C39_Witness ==
    /\ lock = "free"
    /\ thr["t1"].pc = "idle" /\ thr["t1"].ret = "True"
    /\ thr["t2"].pc = "idle" /\ thr["t2"].ret = "False"

====
